---------------------------- MODULE Spec2Model ----------------------------
(***************************************************************************)
(* A model of VTX (src/v3): the message codec (vtx_codec.c) and the UDP    *)
(* driver with its NOM-1 peering protocol (vtx_udp.c).                     *)
(*                                                                         *)
(* Pointers are modelled as indices: a batch_t* is an index into the batch *)
(* table, a byte* into the data buffer is an offset, a peering_t* is the   *)
(* number of a heap cell.  A C function becomes an operator that takes the *)
(* object and returns the changed object with the function's result; an    *)
(* assert that fails, or a crash, is returned as a status other than "ok". *)
(***************************************************************************)
EXTENDS Integers, Sequences, FiniteSets, TLC

(***************************************************************************)
(* Bounds of the model.                                                    *)
(***************************************************************************)
\* vtx_codec_new (limit): the number of batch entries the caller asks for
CodecLimit == 2
\* how many frames are offered to a codec in one behaviour
MaxPuts == 3
\* vtx_codec_new (limit) of the selftest's second, larger codec
Codec2Limit == 4
\* how many control commands, application messages, datagrams from remote
\* peers and lapses of time one behaviour of a vocket sees
MaxControl == 2
MaxSend == 1
MaxInput == 2
MaxTime == 1
\* how many times sendto fails in one behaviour
MaxFail == 1
\* how many requests remote peers send a serving vocket, and how many
\* answers its application gives
MaxRequests == 4
MaxReplies == 2

(***************************************************************************)
(* Program constants.                                                      *)
(***************************************************************************)
\* zmq.h (0MQ/2.x) ZMQ_MAX_VSM_SIZE, used at vtx_codec.c:179 and :253
ZMQ_MAX_VSM_SIZE == 30

NoMsg == [none |-> TRUE]
\* content of a malloc'd byte that was never written
Uninit == -1

(***************************************************************************)
(* Frames.  A frame is its body (a sequence of bytes) and its 'more' flag. *)
(***************************************************************************)
Frame(size, fill, more) == [body |-> [i \in 1..size |-> fill], more |-> more]

\* The frame sizes offered to the codec: empty, tiny, the largest frame that
\* is copied, the smallest that is stored by reference, and one past it.
FrameSizes == {0, 1, ZMQ_MAX_VSM_SIZE - 1, ZMQ_MAX_VSM_SIZE, ZMQ_MAX_VSM_SIZE + 5}

\* vtx_codec_new starts the data buffer at s_random (buffer_limit); the
\* codecs are explored from these positions: the start of the buffer, and a
\* position from where the stored data wraps around the end
Codec1Starts == {0, 60}
Codec2Starts == {0, 130}

(***************************************************************************)
(*                         THE CODEC (vtx_codec.c)                         *)
(***************************************************************************)

\* A batch table entry that malloc returned and nobody initialised.
JunkBatch == [data |-> Uninit, size |-> Uninit, msg |-> NoMsg, busy |-> FALSE]

\* zmq_msg_t reference held by a batch: the frame's body, and whether the
\* message was closed and freed (the pointer is never reset by the code).
MsgRef(body) == [none |-> FALSE, body |-> body, freed |-> FALSE]

\* extract_data: NULL, a pointer into the data buffer, or into a message body
NullPtr == [kind |-> "null", off |-> 0]
BufPtr(off) == [kind |-> "buf", off |-> off]
MsgPtr(off) == [kind |-> "msg", off |-> off]

BATCH_TABLE_FULL(self) ==
    (self.batch_tail + 1) % self.batch_limit = self.batch_head

\* Start a new writer
s_batch_start(self) ==
    IF BATCH_TABLE_FULL(self)
    THEN [c |-> self, rc |-> -1]
    ELSE [c |-> [self EXCEPT
                   !.writer = self.batch_tail,
                   !.batch[self.batch_tail] =
                       [data |-> self.buffer_tail, size |-> 0,
                        msg |-> NoMsg, busy |-> FALSE],
                   !.batch_tail = (self.batch_tail + 1) % self.batch_limit],
          rc |-> 0]

\* Create new codec instance; start is the value of s_random (buffer_limit)
vtx_codec_new(limit, start) ==
    LET batch_limit  == limit + 1
        buffer_limit == (limit * ZMQ_MAX_VSM_SIZE * 10) \div 8
        zeroed == [batch        |-> [i \in 0..(batch_limit - 1) |-> JunkBatch],
                   buffer       |-> [i \in 0..(buffer_limit - 1) |-> Uninit],
                   batch_limit  |-> batch_limit,
                   buffer_limit |-> buffer_limit,
                   batch_tail   |-> 0,
                   batch_head   |-> 0,
                   buffer_tail  |-> start,
                   buffer_head  |-> start,
                   writer       |-> 0,
                   reader       |-> 0,
                   free_space   |-> 0,
                   active       |-> 0,
                   extract_data |-> NullPtr,
                   extract_size |-> 0]
    IN  s_batch_start(zeroed).c

\* Encode 0MQ message frame header: the bytes written
s_put_zmq_header(size, more) ==
    LET frame_size == size + 1
        m == IF more THEN 1 ELSE 0
    IN  IF frame_size < 255
        THEN <<frame_size, m>>
        ELSE <<255, 0, 0, 0, 0,
               (frame_size \div 16777216) % 256,
               (frame_size \div 65536) % 256,
               (frame_size \div 256) % 256,
               frame_size % 256, m>>

\* s_batch_ready, from the test on the free space onwards; o is the codec
\* and the result of opening a new batch, if one had to be opened
s_batch_space(o, required) ==
    IF o.rc # 0 THEN [c |-> o.c, rc |-> -1]
    ELSE IF o.c.buffer_head <= o.c.buffer_tail
    THEN IF o.c.buffer_limit - o.c.buffer_tail < required + 1
         THEN \* If not sufficient, look at start of buffer
              IF o.c.buffer_head < required + 1
              THEN [c |-> [o.c EXCEPT !.free_space = o.c.buffer_head], rc |-> -1]
              ELSE \* Wrap around means starting new writer
                   IF o.c.batch[o.c.writer].size # 0 /\ BATCH_TABLE_FULL(o.c)
                   THEN [c |-> [o.c EXCEPT !.free_space = o.c.buffer_head], rc |-> -1]
                   ELSE IF o.c.batch[o.c.writer].size # 0
                   THEN [c |-> [s_batch_start(o.c).c EXCEPT
                                  !.free_space = o.c.buffer_head,
                                  !.buffer_tail = 0,
                                  !.batch[o.c.batch_tail].data = 0],
                         rc |-> 0]
                   ELSE [c |-> [o.c EXCEPT
                                  !.free_space = o.c.buffer_head,
                                  !.buffer_tail = 0,
                                  !.batch[o.c.writer].data = 0],
                         rc |-> 0]
         ELSE [c |-> [o.c EXCEPT !.free_space = o.c.buffer_limit - o.c.buffer_tail],
               rc |-> IF o.c.buffer_limit - o.c.buffer_tail = required + 1
                         /\ BATCH_TABLE_FULL(o.c)
                      THEN -1 ELSE 0]
    ELSE [c |-> [o.c EXCEPT !.free_space = o.c.buffer_head - o.c.buffer_tail - 1],
          rc |-> IF o.c.buffer_head - o.c.buffer_tail - 1 < required + 1
                 THEN -1 ELSE 0]

\* Check sufficient space and prepare to write
s_batch_ready(self, required) ==
    s_batch_space(IF (~self.batch[self.writer].msg.none) \/ self.batch[self.writer].busy
                  THEN s_batch_start(self)
                  ELSE [c |-> self, rc |-> 0],
                  required)

\* s_batch_store, after the copy: the batch is closed at the buffer's end
s_batch_wrap(self) ==
    IF self.buffer_tail = self.buffer_limit
    THEN s_batch_start(self).c
    ELSE self

\* Store batch data, update batch length.  The caller has seen that the
\* writer holds no message reference (assert (!self->writer->msg)).
s_batch_store(self, data) ==
    s_batch_wrap([self EXCEPT
                    !.batch[self.writer].size = @ + Len(data),
                    !.buffer = [i \in DOMAIN self.buffer |->
                                  IF i >= self.buffer_tail
                                     /\ i < self.buffer_tail + Len(data)
                                  THEN data[i - self.buffer_tail + 1]
                                  ELSE self.buffer[i]],
                    !.buffer_tail = @ + Len(data)])

\* vtx_codec_msg_put of a small message: r is the result of s_batch_ready
msg_put_copy(r, header, msg) ==
    IF r.rc # 0 THEN [c |-> r.c, rc |-> -1]
    ELSE [c |-> [s_batch_store(s_batch_store(r.c, header), msg.body)
                   EXCEPT !.active = @ + Len(header) + Len(msg.body)],
          rc |-> 0]

\* the batch that holds a large message by reference
s_batch_msg(o, msg) ==
    [o.c EXCEPT !.batch[o.c.writer].msg = MsgRef(msg.body)]

\* vtx_codec_msg_put of a large message: r is the result of s_batch_ready
msg_put_reference(r, header, msg) ==
    IF r.rc # 0 THEN [c |-> r.c, rc |-> -1]
    ELSE IF BATCH_TABLE_FULL(r.c) THEN [c |-> r.c, rc |-> -1]
    ELSE [c |-> [s_batch_msg(s_batch_start(s_batch_store(r.c, header)), msg)
                   EXCEPT !.active = @ + Len(header) + Len(msg.body)],
          rc |-> 0]

\* vtx_codec_msg_put once the header is encoded
msg_put_header(self, header, msg) ==
    IF Len(msg.body) < ZMQ_MAX_VSM_SIZE
    THEN msg_put_copy(s_batch_ready(self, Len(header) + Len(msg.body)), header, msg)
    ELSE msg_put_reference(s_batch_ready(self, Len(header)), header, msg)

\* Store 0MQ message into codec, returns 0 if OK, -1 if the store is full
vtx_codec_msg_put(self, msg) ==
    msg_put_header(self, s_put_zmq_header(Len(msg.body), msg.more), msg)

\* size_t arithmetic: a difference below zero wraps around.  SIZE_MOD stands
\* for 2^64 (the model checker's integers have 32 bits).
SIZE_MOD == 1073741824
USub(a, b) == IF a >= b THEN a - b ELSE a - b + SIZE_MOD

\* The byte at ptr [i]; a byte outside the buffer reads as Uninit
ByteAt(self, ptr, i) ==
    IF ptr.kind = "buf" /\ ptr.off + i \in DOMAIN self.buffer
    THEN self.buffer[ptr.off + i]
    ELSE Uninit

BytesAt(self, ptr, n) == [i \in 1..n |-> ByteAt(self, ptr, i - 1)]

HeaderFail(st) == [st |-> st, hs |-> 0, size |-> 0, more |-> FALSE]

\* s_get_zmq_header for a long header (first byte 0xFF) whose bytes are b
s_get_long_header(self, b) ==
    IF (\A i \in 2..6 : b[i] = 0) /\ b[7] * 65536 + b[8] * 256 + b[9] = 0
    THEN HeaderFail("abort")
    ELSE IF \E i \in 2..6 : b[i] # 0
    THEN [st |-> "ok", hs |-> 0, size |-> 0, more |-> (b[10] = 1)]
    ELSE [st |-> "ok",
          hs |-> IF self.active < b[7] * 65536 + b[8] * 256 + b[9] THEN 0 ELSE 10,
          size |-> b[7] * 65536 + b[8] * 256 + b[9] - 1,
          more |-> (b[10] = 1)]

\* s_get_zmq_header on the bytes b found at the pointer
s_get_header_bytes(self, b) ==
    IF b[1] = Uninit THEN HeaderFail("ub")
    ELSE IF b[1] < 255
    THEN IF b[1] = 0 THEN HeaderFail("abort")
         ELSE IF b[2] = Uninit THEN HeaderFail("ub")
         ELSE [st |-> "ok",
               hs |-> IF self.active < b[1] THEN 0 ELSE 2,
               size |-> b[1] - 1,
               more |-> (b[2] = 1)]
    ELSE IF \E i \in 2..10 : b[i] = Uninit THEN HeaderFail("ub")
    ELSE s_get_long_header(self, b)

\* Decode 0MQ message frame header at ptr.  hs is the number of bytes scanned
\* (0: insufficient active data), size the size the message is initialised
\* to.  st is "abort" when assert (frame_size > 0) fails and "ub" when the
\* header is read from bytes that were never written.
s_get_zmq_header(self, ptr) == s_get_header_bytes(self, BytesAt(self, ptr, 10))

NoFrame == [none |-> TRUE]
GotFrame(body, more) == [none |-> FALSE, body |-> body, more |-> more]

MsgGetFail(c, st) == [c |-> c, rc |-> -1, st |-> st, msg |-> NoFrame]

BumpBatchHead(self) ==
    [self EXCEPT !.batch_head = (self.batch_head + 1) % self.batch_limit]

\* memcpy of the message body out of the buffer at extract_data, and the
\* pointer arithmetic that follows it (vtx_codec.c:432-435 and :471-474)
TakeBody(self, n) ==
    [c |-> [self EXCEPT
              !.extract_data = BufPtr(self.extract_data.off + n),
              !.extract_size = USub(self.extract_size, n),
              !.buffer_head = self.extract_data.off + n],
     body |-> BytesAt(self, self.extract_data, n)]

\* vtx_codec_msg_get once the body t was copied out of the buffer
msg_get_taken(t, h) ==
    [c |-> IF t.c.extract_size = 0 THEN BumpBatchHead(t.c) ELSE t.c,
     rc |-> 0, st |-> "ok", msg |-> GotFrame(t.body, h.more)]

\* vtx_codec_msg_get when the header ended its batch: the body is in the
\* next batch (the reader of self), in the buffer or held by reference
msg_get_next(self, h) ==
    IF self.batch[self.reader].size = Uninit THEN MsgGetFail(self, "ub")
    ELSE IF self.batch[self.reader].size # 0
    THEN \* Or may be in buffer directly
         msg_get_taken(TakeBody([self EXCEPT
                                   !.batch[self.reader].busy = TRUE,
                                   !.extract_data = BufPtr(self.batch[self.reader].data),
                                   !.extract_size = self.batch[self.reader].size],
                                h.size), h)
    ELSE IF self.batch[self.reader].msg.none THEN MsgGetFail(self, "abort")
    ELSE IF self.batch[self.reader].msg.freed THEN MsgGetFail(self, "ub")
    ELSE [c |-> [self EXCEPT !.batch[self.reader].msg.freed = TRUE],
          rc |-> 0, st |-> "ok",
          msg |-> GotFrame(self.batch[self.reader].msg.body, h.more)]

\* vtx_codec_msg_get once the header was skipped
msg_get_data(self, h) ==
    IF self.extract_size # 0 \/ h.size = 0
    THEN \* Message data is in buffer
         msg_get_taken(TakeBody(self, h.size), h)
    ELSE \* Batch is done, drop it
         msg_get_next([self EXCEPT
                         !.batch_head = (self.batch_head + 1) % self.batch_limit,
                         !.reader = (self.batch_head + 1) % self.batch_limit],
                      h)

\* vtx_codec_msg_get once the header h at extract_data was decoded
msg_get_header(self, h) ==
    IF h.st # "ok" THEN MsgGetFail(self, h.st)
    ELSE IF h.hs = 0 THEN MsgGetFail(self, "ok")
    ELSE msg_get_data([self EXCEPT
                         !.extract_data = BufPtr(self.extract_data.off + h.hs),
                         !.extract_size = USub(self.extract_size, h.hs),
                         !.active = USub(self.active, h.hs + h.size),
                         !.buffer_head = self.extract_data.off + h.hs],
                      h)

\* vtx_codec_msg_get once a batch to extract from was looked for
msg_get_batch(self) ==
    IF self.extract_size = 0
    THEN MsgGetFail(self, "abort")              \* assert (self->extract_size)
    ELSE msg_get_header(self, s_get_zmq_header(self, self.extract_data))

\* Fetch 0MQ message from codec.  rc is 0 if OK, -1 if there are no more
\* messages; st is "abort" when an assertion fails, "ub" when the code reads
\* memory that was freed or never written.
vtx_codec_msg_get(self) ==
    IF self.extract_size # 0 THEN msg_get_batch(self)
    ELSE IF self.batch_head = self.batch_tail
    THEN MsgGetFail(self, "ok")                 \* Buffer is empty
    ELSE \* Look for new batch to extract
         msg_get_batch([self EXCEPT
                          !.reader = self.batch_head,
                          !.batch[self.batch_head].busy = TRUE,
                          !.extract_data = BufPtr(self.batch[self.batch_head].data),
                          !.extract_size = self.batch[self.batch_head].size])

\* vtx_codec_bin_put: r is the result of s_batch_ready
bin_put_store(r, data) ==
    IF r.rc = 0
    THEN [c |-> [s_batch_store(r.c, data) EXCEPT !.active = @ + Len(data)],
          rc |-> 0]
    ELSE [c |-> r.c, rc |-> -1]

\* Store serialized data into codec
vtx_codec_bin_put(self, data) == bin_put_store(s_batch_ready(self, Len(data)), data)

\* The run vtx_codec_bin_get hands out: size bytes at extract_data.  A run
\* longer than the data buffer (extract_size has wrapped around) reaches
\* outside the buffer and cannot be read.
bin_get_run(self) ==
    [c |-> self,
     size |-> self.extract_size,
     data |-> IF self.extract_size = 0 \/ self.extract_size > self.buffer_limit
              THEN <<>>
              ELSE IF self.extract_data.kind = "msg"
              THEN [i \in 1..self.extract_size |->
                      IF ~self.batch[self.reader].msg.none
                         /\ self.extract_data.off + i
                                \in DOMAIN self.batch[self.reader].msg.body
                      THEN self.batch[self.reader].msg.body[self.extract_data.off + i]
                      ELSE Uninit]
              ELSE BytesAt(self, self.extract_data, self.extract_size),
     st |-> IF \/ self.extract_size > self.buffer_limit
               \/ /\ self.extract_size # 0 /\ self.extract_data.kind = "msg"
                  /\ (self.batch[self.reader].msg.none
                      \/ self.batch[self.reader].msg.freed)
            THEN "ub" ELSE "ok"]

\* Fetch serialized data from codec: the run at extract_data (data), its
\* size, and the codec with its reader set up
vtx_codec_bin_get(self) ==
    bin_get_run(
        IF self.extract_size = 0 /\ self.batch_head # self.batch_tail
        THEN IF ~self.batch[self.batch_head].msg.none
             THEN [self EXCEPT
                     !.reader = self.batch_head,
                     !.batch[self.batch_head].busy = TRUE,
                     !.extract_data = MsgPtr(0),
                     !.extract_size = Len(self.batch[self.batch_head].msg.body)]
             ELSE IF self.batch[self.batch_head].size # 0
             THEN [self EXCEPT
                     !.reader = self.batch_head,
                     !.batch[self.batch_head].busy = TRUE,
                     !.extract_data = BufPtr(self.batch[self.batch_head].data),
                     !.extract_size = self.batch[self.batch_head].size]
             ELSE [self EXCEPT !.reader = self.batch_head]
        ELSE self)

\* vtx_codec_bin_tick when the run was extracted to its end
bin_tick_bump(self) ==
    IF ~self.batch[self.reader].msg.none
    THEN [self EXCEPT
            !.batch_head = (self.batch_head + 1) % self.batch_limit,
            !.batch[self.reader].msg.freed = TRUE]
    ELSE [self EXCEPT
            !.batch_head = (self.batch_head + 1) % self.batch_limit,
            !.buffer_head = (self.buffer_head + self.batch[self.reader].size)
                                % self.buffer_limit]

\* Update codec with actual amount of data extracted
vtx_codec_bin_tick(self, size) ==
    IF size > self.extract_size THEN [c |-> self, st |-> "abort"]
    ELSE IF size = 0 THEN [c |-> self, st |-> "ok"]
    ELSE [c |-> [(IF self.extract_size = size THEN bin_tick_bump(self) ELSE self)
                   EXCEPT !.extract_size = @ - size,
                          !.extract_data = [@ EXCEPT !.off = @ + size],
                          !.active = USub(@, size)],
          st |-> "ok"]

\* vtx_codec_bin_space: r is the result of s_batch_ready
bin_space_free(r) == [c |-> r.c, n |-> IF r.rc = 0 THEN r.c.free_space ELSE 0]

\* Return capacity for new input data, 0 means full
vtx_codec_bin_space(self) == bin_space_free(s_batch_ready(self, 1))

\* Return active size of codec (message data plus headers)
vtx_codec_active(self) == self.active


(***************************************************************************)
(*                       THE UDP DRIVER (vtx_udp.c)                        *)
(*                                                                         *)
(* A vocket is a record that holds the vocket_t fields, the heap of its    *)
(* peering_t objects (heap, free), the reactor's registrations for it      *)
(* (polling, timers), the sockets it opened (handles, bound), and what the *)
(* handler that is running has done so far: datagrams sent (tx), messages  *)
(* passed to the application (out), the reply to the control command       *)
(* (reply), the last result code and pointer (rc, ret), the message in     *)
(* hand (msg), whether freed memory was used (uaf) and the assertion that  *)
(* failed (failed).                                                        *)
(*                                                                         *)
(* Text addresses "host:port" are tuples <<host, port>>; an address cut at *)
(* its colon is <<host>>.  A sockaddr_in is <<ip, port>>, the ip given by  *)
(* its dotted text.  Times are abstracted: expiry and silent are either in *)
(* the future or passed.                                                   *)
(***************************************************************************)
VTX_UDP_MSGMAX == 512
VTX_UDP_VERSION == 1
VTX_UDP_ROTFL == 0
VTX_UDP_OHAI == 1
VTX_UDP_OHAI_OK == 2
VTX_UDP_HUGZ == 3
VTX_UDP_HUGZ_OK == 4
VTX_UDP_NOM == 5
VTX_UDP_CMDLIMIT == 6
VTX_UDP_HEADER == 2
\* flag bit of a retransmitted request NOM (the define is not part of src/)
VTX_UDP_RESEND == 1
VTX_MAX_PEERINGS == 512

s_vocket_config ==
    [REQ    |-> [routing |-> "REQUEST", nomnom |-> TRUE,  min_peerings |-> 1,
                 max_peerings |-> VTX_MAX_PEERINGS],
     REP    |-> [routing |-> "REPLY",   nomnom |-> TRUE,  min_peerings |-> 1,
                 max_peerings |-> VTX_MAX_PEERINGS],
     ROUTER |-> [routing |-> "ROUTER",  nomnom |-> TRUE,  min_peerings |-> 0,
                 max_peerings |-> VTX_MAX_PEERINGS],
     DEALER |-> [routing |-> "DEALER",  nomnom |-> TRUE,  min_peerings |-> 1,
                 max_peerings |-> VTX_MAX_PEERINGS],
     PUB    |-> [routing |-> "PUBLISH", nomnom |-> FALSE, min_peerings |-> 0,
                 max_peerings |-> VTX_MAX_PEERINGS],
     SUB    |-> [routing |-> "NONE",    nomnom |-> TRUE,  min_peerings |-> 1,
                 max_peerings |-> VTX_MAX_PEERINGS],
     PUSH   |-> [routing |-> "DEALER",  nomnom |-> FALSE, min_peerings |-> 1,
                 max_peerings |-> VTX_MAX_PEERINGS],
     PULL   |-> [routing |-> "NONE",    nomnom |-> TRUE,  min_peerings |-> 1,
                 max_peerings |-> VTX_MAX_PEERINGS],
     PAIR   |-> [routing |-> "SINGLE",  nomnom |-> TRUE,  min_peerings |-> 1,
                 max_peerings |-> 1]]

\* ---- messages and datagram bodies ----
\* zmsg_t *: NULL, or a message of frames
NULLMSG == [null |-> TRUE, frames |-> <<>>]
Msg(frames) == [null |-> FALSE, frames |-> frames]
\* a frame of application data (id tells the payloads apart; re is the
\* number of the delivered request that the application answers with it)
DataFrame(id, size, re) ==
    [kind |-> "data", id |-> id, size |-> size, re |-> re, text |-> <<>>]
\* a frame that holds the string scheme://host:port
TextFrame(scheme, address) ==
    [kind |-> "text", id |-> 0, size |-> 16, re |-> 0, text |-> <<scheme>> \o address]

RECURSIVE EncodedSize(_)
\* zmsg_encode: a length octet (three for a long frame) and the data, per frame
EncodedSize(frames) ==
    IF frames = <<>> THEN 0
    ELSE Head(frames).size + (IF Head(frames).size < 255 THEN 1 ELSE 3)
         + EncodedSize(Tail(frames))

\* datagram bodies: nothing, a string, an encoded message, or other bytes
NoBody == [kind |-> "empty", text |-> <<>>, msg |-> NULLMSG, size |-> 0]
TextBody(text) == [kind |-> "text", text |-> text, msg |-> NULLMSG, size |-> 14]
MsgBody(msg) ==
    [kind |-> "msg", text |-> <<>>, msg |-> msg, size |-> EncodedSize(msg.frames)]
JunkBody == [kind |-> "junk", text |-> <<>>, msg |-> NULLMSG, size |-> 3]

\* zmsg_decode: NULL when the body is not an encoded message
zmsg_decode(body) ==
    IF body.kind = "msg" THEN body.msg
    ELSE IF body.kind = "empty" THEN Msg(<<>>)
    ELSE NULLMSG

\* the body read as a C string that serves as a hash key
BodyKey(body) == IF body.kind = "text" THEN body.text ELSE <<"?">>

\* ---- czmq containers ----
EmptyHash == [k \in {} |-> 0]
zhash_lookup(hash, key) == IF key \in DOMAIN hash THEN hash[key] ELSE 0
zhash_insert(hash, key, item) ==
    IF key \in DOMAIN hash THEN hash
    ELSE [k \in DOMAIN hash \cup {key} |-> IF k = key THEN item ELSE hash[k]]
zhash_remove(hash, key) == [k \in DOMAIN hash \ {key} |-> hash[k]]
\* zhash_rename fails when the old key is missing or the new key exists
zhash_rename(hash, old, new) ==
    IF old \notin DOMAIN hash \/ new \in DOMAIN hash
    THEN [hash |-> hash, rc |-> -1]
    ELSE [hash |-> [k \in (DOMAIN hash \ {old}) \cup {new} |->
                       IF k = new THEN hash[old] ELSE hash[k]],
          rc |-> 0]
\* zlist_remove takes out the first occurrence of the item
zlist_remove(list, item) ==
    IF \A i \in 1..Len(list) : list[i] # item THEN list
    ELSE SubSeq(list, 1, (CHOOSE i \in 1..Len(list) :
                             list[i] = item /\ \A j \in 1..(i - 1) : list[j] # item) - 1)
         \o SubSeq(list, (CHOOSE i \in 1..Len(list) :
                             list[i] = item /\ \A j \in 1..(i - 1) : list[j] # item) + 1,
                   Len(list))
ListSet(list) == {list[i] : i \in 1..Len(list)}

\* ---- addresses ----
\* inet_aton / gethostbyname know the host
KnownHost(host) == host \in {"h1", "h2", "h3", "h4"}
\* the broadcast address of the LAN (s_broadcast_addr) and INADDR_ANY, dotted
s_broadcast_addr == "255"
INADDR_ANY == "0"
\* Converts a hostname:port into a sockaddr_in
s_str_to_sin_addr(address, wildcard) ==
    IF address[1] = "*" THEN [addr |-> <<wildcard, address[2]>>, rc |-> 0]
    ELSE IF KnownHost(address[1]) THEN [addr |-> address, rc |-> 0]
    ELSE [addr |-> <<INADDR_ANY, address[2]>>, rc |-> -1]
\* Converts a sockaddr_in to a string
s_sin_addr_to_str(addr) == <<addr[1], addr[2]>>

\* ---- vockets and peerings ----
\* number of peering_t objects the heap of a vocket has room for
MaxCells == 2
Cells == 1..MaxCells

\* zmalloc'd peering_t
ZeroPeering ==
    [alive |-> FALSE, outgoing |-> FALSE, address |-> <<"-", 0>>,
     expiry |-> "passed", broadcast |-> FALSE, silent |-> "passed",
     addr |-> <<INADDR_ANY, 0>>, bcast |-> <<INADDR_ANY, 0>>,
     request |-> NULLMSG, reply |-> NULLMSG, sendseq |-> 0, recvseq |-> 0]

\* Constructor for vocket; local is the address of its UDP handle
vocket_new(socktype, local) ==
    [socktype      |-> socktype,
     routing       |-> s_vocket_config[socktype].routing,
     nomnom        |-> s_vocket_config[socktype].nomnom,
     min_peerings  |-> s_vocket_config[socktype].min_peerings,
     max_peerings  |-> s_vocket_config[socktype].max_peerings,
     binding_hash  |-> EmptyHash,
     peering_hash  |-> EmptyHash,
     peering_list  |-> <<>>,
     live_peerings |-> <<>>,
     reply_to      |-> 0,
     peerings      |-> 0,
     sender        |-> "",
     handle        |-> local,
     heap          |-> [c \in Cells |-> ZeroPeering],
     free          |-> Cells,
     polling       |-> IF s_vocket_config[socktype].min_peerings = 0 THEN 1 ELSE 0,
     timers        |-> {},
     handles       |-> 1,
     bound         |-> {},
     tx |-> <<>>, out |-> <<>>, reply |-> "", rc |-> 0, ret |-> 0,
     msg |-> NULLMSG, uaf |-> FALSE, failed |-> ""]

(* The functions below take the vocket they work on and give the vocket    *)
(* they leave. Each is written CHOOSE result \in {(f (v)) : v \in {vocket}}: *)
(* its value is f (vocket), with the argument worked out once however often *)
(* the body uses it.                                                        *)

\* What a handler starts from: nothing sent, nothing failed yet
Enter(vocket) == CHOOSE result \in {(
    [v EXCEPT !.tx = <<>>, !.out = <<>>, !.reply = "", !.rc = 0, !.ret = 0,
              !.msg = NULLMSG, !.uaf = FALSE]) : v \in {vocket}} : TRUE

\* The handler dereferences the peering_t pointer p
Deref(vocket, p) == CHOOSE result \in {(
    [v EXCEPT !.uaf = @ \/ (p \in v.free),
              !.failed = IF p = 0 /\ @ = "" THEN "segv" ELSE @]) : v \in {vocket}} : TRUE

\* Peering is now active
peering_raise(vocket, p) == CHOOSE result \in {(
    IF p = 0 \/ v.heap[p].alive THEN Deref(v, p)
    ELSE [Deref(v, p) EXCEPT
            !.heap[p].alive = TRUE,
            !.heap[p].expiry = "future",
            !.heap[p].silent = "future",
            !.live_peerings = Append(@, p),
            !.polling = IF Len(v.live_peerings) + 1 = v.min_peerings
                        THEN @ + 1 ELSE @]) : v \in {vocket}} : TRUE

\* Peering is now inactive
peering_lower(vocket, p) == CHOOSE result \in {(
    IF p = 0 \/ ~v.heap[p].alive THEN Deref(v, p)
    ELSE [Deref(v, p) EXCEPT
            !.heap[p].alive = FALSE,
            !.live_peerings = zlist_remove(@, p),
            !.polling = IF Len(zlist_remove(v.live_peerings, p)) < v.min_peerings
                        THEN 0 ELSE @]) : v \in {vocket}} : TRUE

\* peering_delete, after peering_lower: leave the list, end the timers, free
peering_free(vocket, p) == CHOOSE result \in {(
    [v EXCEPT !.peering_list = zlist_remove(@, p),
              !.timers = {t \in @ : t[2] # p},
              !.free = @ \cup {p},
              !.peerings = @ - 1]) : v \in {vocket}} : TRUE

\* Destroy peering, when it's removed from vocket->peering_hash
peering_delete(vocket, p) == CHOOSE result \in {(
    peering_free(peering_lower([v EXCEPT !.heap[p].request = NULLMSG,
                                         !.heap[p].reply = NULLMSG], p), p)) : v \in {vocket}} : TRUE

\* Destroy peering, indirect by removing from peering hash: zhash_delete of
\* the key self->address deletes the item stored under that key
peering_destroy(vocket, p) == CHOOSE result \in {(
    IF p = 0 THEN v
    ELSE IF v.heap[p].address \in DOMAIN v.peering_hash
    THEN peering_delete([Deref(v, p) EXCEPT
                           !.peering_hash = zhash_remove(@, v.heap[p].address)],
                        v.peering_hash[v.heap[p].address])
    ELSE Deref(v, p)) : v \in {vocket}} : TRUE

\* The datagram that sendto puts on the wire
Datagram(vocket, p, command, body, flags) == CHOOSE result \in {(
    [from |-> v.handle, to |-> v.heap[p].addr,
     version |-> VTX_UDP_VERSION, flags |-> flags % 16,
     command |-> command, seq |-> v.heap[p].sendseq % 16, body |-> body]) : v \in {vocket}} : TRUE

\* A send that has no limit of length, for comparison
peering_send_unlimited(vocket, p, command, body, flags, io) ==
    IF p = 0 THEN Deref(vocket, p)
    ELSE IF io = "ok"
    THEN [Deref(vocket, p) EXCEPT
            !.tx = Append(@, Datagram(vocket, p, command, body, flags)),
            !.heap[p].silent = "future",
            !.rc = 0]
    ELSE IF io = "retry"
    THEN [Deref(vocket, p) EXCEPT !.rc = -1]
    ELSE [peering_destroy(Deref(vocket, p), p) EXCEPT !.rc = -1]

\* Send a buffer of data to peering, prefixed by command header.  io is what
\* sendto does: "ok", "retry" (an error s_handle_io_error lets pass) or
\* "abandon" (a terminal error)
peering_send(vocket, p, command, body, flags, io) == CHOOSE result \in {(
    IF p = 0 THEN Deref(v, p)
    ELSE IF body.size + VTX_UDP_HEADER <= VTX_UDP_MSGMAX
    THEN IF io = "ok"
         THEN [Deref(v, p) EXCEPT
                 !.tx = Append(@, Datagram(v, p, command, body, flags)),
                 !.heap[p].silent = "future",
                 !.rc = 0]
         ELSE IF io = "retry"
         THEN [Deref(v, p) EXCEPT !.rc = -1]
         ELSE [peering_destroy(Deref(v, p), p) EXCEPT !.rc = -1]
    ELSE [Deref(v, p) EXCEPT !.rc = 0]) : v \in {vocket}} : TRUE

\* Send frame data to peering as formatted command; self->vocket is read
\* once more after the send
peering_send_msg(vocket, p, msg, flags, io) == CHOOSE result \in {(
    Deref(peering_send(v, p, VTX_UDP_NOM, MsgBody(msg), flags, io), p)) : v \in {vocket}} : TRUE

\* zloop_timer (loop, interval, 1, s_peering_monitor, peering)
monitor_arm(vocket, p) == CHOOSE result \in {(
    [v EXCEPT !.timers = @ \cup {<<"monitor", p>>}]) : v \in {vocket}} : TRUE

\* s_peering_monitor: a broadcast peering that expired is reset to BROADCAST
monitor_unfocus(vocket, p) == CHOOSE result \in {(
    [v EXCEPT
       !.peering_hash = zhash_rename(@, v.heap[p].address,
                                     s_sin_addr_to_str(v.heap[p].bcast)).hash,
       !.failed = IF @ = "" /\ zhash_rename(v.peering_hash, v.heap[p].address,
                                   s_sin_addr_to_str(v.heap[p].bcast)).rc # 0
                  THEN "assert (rc == 0)" ELSE @,
       !.heap[p].addr = v.heap[p].bcast,
       !.heap[p].address = s_sin_addr_to_str(v.heap[p].bcast)]) : v \in {vocket}} : TRUE

\* s_peering_monitor that destroys every expired peering, outgoing or not
monitor_expired_all(vocket, p) == peering_destroy(vocket, p)

\* s_peering_monitor once the expired peering was lowered
monitor_expired(vocket, p) == CHOOSE result \in {(
    IF v.heap[p].broadcast THEN monitor_arm(monitor_unfocus(v, p), p)
    ELSE IF ~v.heap[p].outgoing THEN peering_destroy(v, p)
    ELSE monitor_arm(v, p)) : v \in {vocket}} : TRUE

\* A monitor that sends no HUGZ, for comparison
s_peering_monitor_mute(vocket, p, io) ==
    IF vocket.heap[p].alive
    THEN IF vocket.heap[p].expiry = "passed"
         THEN monitor_expired(peering_lower(vocket, p), p)
         ELSE monitor_arm(Deref(vocket, p), p)
    ELSE IF vocket.heap[p].outgoing
    THEN monitor_arm(peering_send(vocket, p, VTX_UDP_OHAI,
                                  TextBody(vocket.heap[p].address), 0, io), p)
    ELSE monitor_arm(Deref(vocket, p), p)

\* Monitor peering for connectivity and send OHAIs and HUGZ as needed
s_peering_monitor(vocket, p, io) == CHOOSE result \in {(
    IF v.heap[p].alive
    THEN IF v.heap[p].expiry = "passed"
         THEN monitor_expired(peering_lower(v, p), p)
         ELSE IF v.heap[p].silent = "passed"
         THEN monitor_arm(peering_send(v, p, VTX_UDP_HUGZ, NoBody, 0, io), p)
         ELSE monitor_arm(Deref(v, p), p)
    ELSE IF v.heap[p].outgoing
    THEN monitor_arm(peering_send(v, p, VTX_UDP_OHAI,
                                  TextBody(v.heap[p].address), 0, io), p)
    ELSE monitor_arm(Deref(v, p), p)) : v \in {vocket}} : TRUE

\* A resend timer that sends the request again without the RESEND flag
s_resend_timer_unmarked(vocket, p, io) ==
    IF ~vocket.heap[p].request.null /\ vocket.heap[p].alive
    THEN peering_send_msg(vocket, p, vocket.heap[p].request, 0, io)
    ELSE Deref(vocket, p)

\* Resend request NOM if peering is alive and no response received
s_resend_timer(vocket, p, io) == CHOOSE result \in {(
    IF ~v.heap[p].request.null /\ v.heap[p].alive
    THEN peering_send_msg(v, p, v.heap[p].request, VTX_UDP_RESEND, io)
    ELSE Deref(v, p)) : v \in {vocket}} : TRUE

\* peering_require: store new peering in vocket containers
peering_store(vocket, p, address) == CHOOSE result \in {(
    [v EXCEPT !.timers = @ \cup {<<"resend", p>>},
              !.peering_hash = zhash_insert(@, address, p),
              !.peering_list = Append(@, p),
              !.peerings = @ + 1,
              !.ret = p]) : v \in {vocket}} : TRUE

\* peering_require: the new peering_t in heap cell p
peering_new(vocket, p, address, outgoing, conv) == CHOOSE result \in {(
    [v EXCEPT !.free = @ \ {p},
              !.heap[p] = [ZeroPeering EXCEPT
                             !.address = address,
                             !.outgoing = outgoing,
                             !.addr = conv.addr,
                             !.broadcast = outgoing /\ address[1] = "*",
                             !.bcast = IF outgoing /\ address[1] = "*"
                                       THEN conv.addr ELSE @]]) : v \in {vocket}} : TRUE

\* peering_require when the address is not in the peering hash; conv is the
\* result of s_str_to_sin_addr.  An address that cannot be converted leaves
\* the freed object's pointer as the result.
peering_create(vocket, p, address, outgoing, conv, io) == CHOOSE result \in {(
    IF conv.rc # 0 THEN [v EXCEPT !.ret = p]
    ELSE peering_store(s_peering_monitor(peering_new(v, p, address, outgoing, conv),
                                         p, io),
                       p, address)) : v \in {vocket}} : TRUE

\* Find the peering for the address, or create it in the heap cell p that
\* malloc returns
peering_require(vocket, address, outgoing, p, io) == CHOOSE result \in {(
    IF address \in DOMAIN v.peering_hash
    THEN [v EXCEPT !.ret = v.peering_hash[address]]
    ELSE peering_create(v, p, address, outgoing,
                        s_str_to_sin_addr(address, IF outgoing THEN s_broadcast_addr
                                                   ELSE INADDR_ANY),
                        io)) : v \in {vocket}} : TRUE

\* binding_require: the address is cut at its colon before it becomes the
\* key of the binding hash.  The socket opened for a binding that could not
\* be initialized stays open, and the freed binding_t is the result.
binding_create(vocket, address) == CHOOSE result \in {(
    IF (address[1] # "*" /\ ~KnownHost(address[1]))
       \/ <<address[1], address[2]>> \in v.bound
    THEN [v EXCEPT !.handles = @ + 1, !.ret = 1]
    ELSE [v EXCEPT !.handles = @ + 1,
                   !.bound = @ \cup {<<address[1], address[2]>>},
                   !.binding_hash = zhash_insert(@, <<address[1]>>, address),
                   !.ret = 1]) : v \in {vocket}} : TRUE

\* Find the binding for the address, or create it
binding_require(vocket, address) == CHOOSE result \in {(
    IF address \in DOMAIN v.binding_hash
    THEN [v EXCEPT !.ret = 1]
    ELSE binding_create(v, address)) : v \in {vocket}} : TRUE

\* s_driver_control: the reply to a BIND
control_bind(vocket) == CHOOSE result \in {(
    [v EXCEPT !.reply = IF v.ret = 0 THEN "1" ELSE "0"]) : v \in {vocket}} : TRUE

\* CONNECT that does not look at max_peerings
s_driver_control_any(vocket, command, address, p, io) ==
    IF command = "BIND"
    THEN control_bind(binding_require(Enter(vocket), address))
    ELSE IF command = "CONNECT"
    THEN [peering_require(Enter(vocket), address, TRUE, p, io) EXCEPT !.reply = "0"]
    ELSE [Enter(vocket) EXCEPT !.reply = "1"]

\* Handle bind/connect from caller
s_driver_control(vocket, command, address, p, io) == CHOOSE result \in {(
    IF command = "BIND"
    THEN control_bind(binding_require(Enter(v), address))
    ELSE IF command = "CONNECT"
    THEN IF v.peerings < v.max_peerings
         THEN [peering_require(Enter(v), address, TRUE, p, io) EXCEPT !.reply = "0"]
         ELSE [Enter(v) EXCEPT !.reply = "1"]
    ELSE [Enter(v) EXCEPT !.reply = "1"]) : v \in {vocket}} : TRUE

\* ---- s_vocket_input: message from the application ----
\* zlist_push (vocket->live_peerings, peering): back at the front
route_requeue_front(vocket, p) ==
    [vocket EXCEPT !.live_peerings = <<p>> \o @]

\* zlist_append (vocket->live_peerings, peering)
route_requeue(vocket, p) == CHOOSE result \in {(
    [v EXCEPT !.live_peerings = Append(@, p)]) : v \in {vocket}} : TRUE

\* VTX_ROUTING_REQUEST, with the peering p popped off live_peerings
route_request(vocket, p, msg, io) == CHOOSE result \in {(
    IF p = 0 THEN [v EXCEPT !.failed = "assert (peering)"]
    ELSE IF v.heap[p].request.null
    THEN peering_send_msg([v EXCEPT !.heap[p].sendseq = (@ + 1) % 16,
                                    !.heap[p].request = msg],
                          p, msg, 0, io)
    ELSE Deref(v, p)) : v \in {vocket}} : TRUE

\* the application's message becomes the peering's last reply and is sent
route_reply(vocket, p, msg, io) == CHOOSE result \in {(
    IF p = 0 THEN Deref(v, p)
    ELSE peering_send_msg([v EXCEPT !.heap[p].reply = msg,
                                    !.heap[p].sendseq = v.heap[p].recvseq],
                          p, msg, 0, io)) : v \in {vocket}} : TRUE

\* VTX_ROUTING_ROUTER that sends to the peering whether it is alive or not
route_router_dead(vocket, msg, io) ==
    IF zhash_lookup(vocket.peering_hash, Tail(Head(msg.frames).text)) # 0
    THEN route_reply(vocket,
                     zhash_lookup(vocket.peering_hash, Tail(Head(msg.frames).text)),
                     Msg(Tail(msg.frames)), io)
    ELSE vocket

\* VTX_ROUTING_ROUTER: first frame is address of peering
route_router(vocket, msg, io) == CHOOSE result \in {(
    IF msg.frames # <<>> /\ Head(msg.frames).kind = "text"
       /\ Head(msg.frames).text[1] = "udp"
    THEN IF zhash_lookup(v.peering_hash, Tail(Head(msg.frames).text)) # 0
            /\ v.heap[zhash_lookup(v.peering_hash, Tail(Head(msg.frames).text))].alive
         THEN route_reply(v, zhash_lookup(v.peering_hash, Tail(Head(msg.frames).text)),
                          Msg(Tail(msg.frames)), io)
         ELSE v
    ELSE v) : v \in {vocket}} : TRUE

RECURSIVE route_publish(_, _, _, _)
\* VTX_ROUTING_PUBLISH: zlist_first / zlist_next over live_peerings
route_publish(v, list, msg, io) ==
    IF list = <<>> THEN v
    ELSE route_publish(peering_send_msg(v, Head(list), msg, 0, io),
                       Tail(list), msg, io)

zlist_first(list) == IF list = <<>> THEN 0 ELSE Head(list)
zlist_pop(list) == IF list = <<>> THEN <<>> ELSE Tail(list)

\* Input message on data pipe from application 0MQ socket (the caller has
\* seen that live_peerings holds min_peerings peerings)
s_vocket_input(vocket, msg, io) == CHOOSE result \in {(
    IF v.routing = "REQUEST"
    THEN route_requeue(route_request([Enter(v) EXCEPT !.live_peerings = zlist_pop(@)],
                                     zlist_first(v.live_peerings), msg, io),
                       zlist_first(v.live_peerings))
    ELSE IF v.routing = "REPLY"
    THEN IF v.reply_to # 0
         THEN [route_reply(Enter(v), v.reply_to, msg, io) EXCEPT !.reply_to = 0]
         ELSE Enter(v)
    ELSE IF v.routing = "DEALER"
    THEN route_requeue(route_reply([Enter(v) EXCEPT !.live_peerings = zlist_pop(@)],
                                   zlist_first(v.live_peerings), msg, io),
                       zlist_first(v.live_peerings))
    ELSE IF v.routing = "ROUTER" THEN route_router(Enter(v), msg, io)
    ELSE IF v.routing = "PUBLISH"
    THEN route_publish(Enter(v), v.live_peerings, msg, io)
    ELSE IF v.routing = "SINGLE"
    THEN peering_send_msg(Enter(v), zlist_first(v.live_peerings), msg, 0, io)
    ELSE Enter(v)) : v \in {vocket}} : TRUE

\* ---- s_binding_input: datagram from the network ----
\* a new incoming peering beyond max_peerings is refused with ROTFL
input_accept(vocket, io) == CHOOSE result \in {(
    IF v.peerings > v.max_peerings
    THEN [peering_destroy(peering_send(v, v.ret, VTX_UDP_ROTFL,
                                       TextBody(<<"Max peerings reached for socket">>),
                                       0, io),
                          v.ret)
            EXCEPT !.ret = 0]
    ELSE v) : v \in {vocket}} : TRUE

\* First pass to try to resolve or create peering if needed: ret is the
\* peering, 0 if there is none to continue with
input_resolve(vocket, d, p, io) == CHOOSE result \in {(
    IF s_sin_addr_to_str(d.from) \in DOMAIN v.peering_hash
    THEN [v EXCEPT !.ret = v.peering_hash[s_sin_addr_to_str(d.from)]]
    ELSE IF d.command = VTX_UDP_OHAI_OK
    THEN [v EXCEPT !.ret = zhash_lookup(v.peering_hash, BodyKey(d.body))]
    ELSE IF d.command = VTX_UDP_OHAI
    THEN input_accept(peering_require(v, s_sin_addr_to_str(d.from), FALSE, p, io), io)
    ELSE [v EXCEPT !.ret = 0]) : v \in {vocket}} : TRUE

\* OHAI: raise the peering if the OHAI-OK went out
input_ohai(vocket, p) == CHOOSE result \in {(
    IF v.rc = 0 THEN peering_raise(v, p) ELSE v) : v \in {vocket}} : TRUE

\* OHAI-OK: focus peering from the key in the body to the sender's address
input_focus(vocket, p, d) == CHOOSE result \in {(
    IF s_sin_addr_to_str(d.from) # BodyKey(d.body)
    THEN [v EXCEPT
            !.peering_hash = zhash_rename(@, BodyKey(d.body),
                                          s_sin_addr_to_str(d.from)).hash,
            !.failed = IF @ = "" /\ zhash_rename(v.peering_hash, BodyKey(d.body),
                                        s_sin_addr_to_str(d.from)).rc # 0
                       THEN "assert (rc == 0)" ELSE @,
            !.heap[p].addr = d.from,
            !.heap[p].address = s_sin_addr_to_str(d.from)]
    ELSE v) : v \in {vocket}} : TRUE

\* a duplicate request: resend last reply, don't pass to application
input_resend(vocket, p, io) == CHOOSE result \in {(
    IF v.heap[p].reply.null
    THEN [v EXCEPT !.failed = "assert (peering->reply)", !.msg = NULLMSG]
    ELSE [peering_send_msg(v, p, v.heap[p].reply, 0, io) EXCEPT !.msg = NULLMSG]) : v \in {vocket}} : TRUE

\* A routing that takes every NOM for a new reply, for comparison
input_route_unfiltered(vocket, p, d, msg, io) ==
    [vocket EXCEPT !.heap[p].recvseq = d.seq,
                   !.heap[p].request = NULLMSG,
                   !.msg = msg]

\* NOM: what the routing of the vocket does with the decoded message
input_route(vocket, p, d, msg, io) == CHOOSE result \in {(
    IF v.routing = "REQUEST"
    THEN IF d.seq = v.heap[p].recvseq
         THEN [v EXCEPT !.msg = NULLMSG]
         ELSE [v EXCEPT !.heap[p].recvseq = d.seq,
                        !.heap[p].request = NULLMSG,
                        !.msg = msg]
    ELSE IF v.routing \in {"REPLY", "ROUTER", "DEALER"}
    THEN IF d.flags # 0 /\ VTX_UDP_RESEND # 0 /\ d.seq = v.heap[p].recvseq
         THEN input_resend(v, p, io)
         ELSE [v EXCEPT
                 !.reply_to = IF v.routing = "REPLY" THEN p ELSE @,
                 !.heap[p].recvseq = d.seq,
                 !.msg = IF v.routing = "ROUTER"
                         THEN Msg(<<TextFrame("udp", s_sin_addr_to_str(d.from))>>
                                  \o msg.frames)
                         ELSE msg]
    ELSE [v EXCEPT !.msg = msg]) : v \in {vocket}} : TRUE

\* Now pass message onto application if required
input_deliver(vocket, p, d) == CHOOSE result \in {(
    IF v.nomnom /\ ~v.msg.null
    THEN [v EXCEPT !.sender = s_sin_addr_to_str(d.from)[1],
                   !.out = Append(@, [msg |-> v.msg,
                                      from |-> s_sin_addr_to_str(d.from),
                                      peering |-> p])]
    ELSE v) : v \in {vocket}} : TRUE

\* Now do command-specific work
input_command(vocket, p, d, io) == CHOOSE result \in {(
    IF d.command = VTX_UDP_OHAI
    THEN input_ohai(peering_send(v, p, VTX_UDP_OHAI_OK, d.body, 0, io), p)
    ELSE IF d.command = VTX_UDP_OHAI_OK
    THEN peering_raise(input_focus(v, p, d), p)
    ELSE IF d.command = VTX_UDP_HUGZ
    THEN peering_send(v, p, VTX_UDP_HUGZ_OK, NoBody, 0, io)
    ELSE IF d.command = VTX_UDP_NOM /\ ~zmsg_decode(d.body).null
    THEN input_deliver(input_route(v, p, d, zmsg_decode(d.body), io), p, d)
    ELSE v) : v \in {vocket}} : TRUE

\* At this stage we need an active peering to continue; any input at all
\* from a peer counts as activity
input_peering(vocket, d, io) == CHOOSE result \in {(
    IF v.ret = 0 THEN v
    ELSE input_command([v EXCEPT !.heap[v.ret].expiry = "future"], v.ret, d, io)) : v \in {vocket}} : TRUE

\* An input handler that does not look at version and command, for comparison
s_binding_input_unchecked(vocket, d, p, io) ==
    input_peering(input_resolve(Enter(vocket), d, p, io), d, io)

\* Input message on binding handle; p is the heap cell a new peering gets
s_binding_input(vocket, d, p, io) == CHOOSE result \in {(
    IF d.version # VTX_UDP_VERSION \/ d.command >= VTX_UDP_CMDLIMIT
    THEN Enter(v)
    ELSE input_peering(input_resolve(Enter(v), d, p, io), d, io)) : v \in {vocket}} : TRUE

(***************************************************************************)
(* vtx_queue.c: a ring buffer of frames.  A frame is the number of the     *)
(* store that brought it and whether it is a copy made by zframe_dup; the  *)
(* frames the queue owns (stored, and not destroyed by zframe_destroy) are *)
(* kept beside the queue.                                                  *)
(***************************************************************************)
MaxLimit == 3
MaxStores == 5

\* NULL, and what a slot of the malloc'ed ring holds before the first store
NOFRAME == [seq |-> 0, copy |-> FALSE]
GARBAGE == [seq |-> -1, copy |-> FALSE]

zframe_new(seq) == [seq |-> seq, copy |-> FALSE]

zframe_dup(frame) == [frame EXCEPT !.copy = TRUE]

queue_new(limit) ==
    [queue |-> [i \in 0 .. limit - 1 |-> GARBAGE], limit |-> limit,
     head |-> 0, tail |-> 0]

\* tail - head + limit is at least 1 and below 2 * limit: the unsigned
\* arithmetic does not wrap
queue_size(self) == (self.tail - self.head + self.limit) % self.limit

\* self->tail = ++self->tail % self->limit, as the compilers build it: the
\* increment is stored first, then the remainder
queue_bump(index, limit) == (index + 1) % limit

\* A queue that refuses the new frame when it is full, for comparison
queue_store_refuse(self, owned, frame, grab) ==
    IF queue_bump(self.tail, self.limit) = self.head
    THEN [self |-> self, frames |-> owned]
    ELSE [self |-> [self EXCEPT !.queue[self.tail] =
                                    IF grab THEN frame ELSE zframe_dup(frame),
                                !.tail = queue_bump(self.tail, self.limit)],
          frames |-> owned \cup {IF grab THEN frame ELSE zframe_dup(frame)}]

\* queue_store (self, frame, grab): the queue and the frames it owns after it
queue_store(self, owned, frame, grab) ==
    CHOOSE result \in {
        (IF queue_bump(self.tail, self.limit) = self.head
         THEN [self |-> [self EXCEPT !.queue[self.tail] = held,
                                     !.tail = queue_bump(self.tail, self.limit),
                                     !.head = queue_bump(self.head, self.limit)],
               frames |-> (owned \cup {held})
                          \ {[self.queue EXCEPT ![self.tail] = held][self.head]}]
         ELSE [self |-> [self EXCEPT !.queue[self.tail] = held,
                                     !.tail = queue_bump(self.tail, self.limit)],
               frames |-> owned \cup {held}])
        : held \in {IF grab THEN frame ELSE zframe_dup(frame)}} : TRUE

queue_oldest(self) ==
    IF self.head # self.tail THEN self.queue[self.head] ELSE NOFRAME

queue_newest(self) ==
    IF self.head # self.tail
    THEN self.queue[(self.tail + self.limit - 1) % self.limit]
    ELSE NOFRAME

queue_drop_oldest(self, owned) ==
    IF self.head # self.tail
    THEN [self |-> [self EXCEPT !.head = queue_bump(self.head, self.limit)],
          frames |-> owned \ {self.queue[self.head]}]
    ELSE [self |-> self, frames |-> owned]

queue_drop_newest(self, owned) ==
    IF self.head # self.tail
    THEN [self |-> [self EXCEPT !.tail = (self.tail + self.limit - 1) % self.limit],
          frames |-> owned \ {self.queue[(self.tail + self.limit - 1) % self.limit]}]
    ELSE [self |-> self, frames |-> owned]

(***************************************************************************)
(* vtx.c: the registry of drivers and sockets.                             *)
(***************************************************************************)
MaxSockets == 2
MaxDriverCalls == 2

\* vtx_new: two empty hash tables
vtx_new == [drivers |-> <<>>, sockets |-> <<>>]

\* vtx_register: the driver and its command pipe, kept under its scheme
vtx_register(self, scheme) ==
    IF scheme \in DOMAIN self.drivers
    THEN [self |-> self, rc |-> -1]
    ELSE [self |-> [self EXCEPT !.drivers =
                       (scheme :> [protocol |-> scheme, commands |-> <<>>]) @@ @],
          rc |-> 0]

\* vtx_socket and s_socket_new: a socket with its type and no driver (<<>>)
vtx_socket(self, type) ==
    [self |-> [self EXCEPT !.sockets =
                  ((Cardinality(DOMAIN @) + 1) :> [type |-> type, driver |-> <<>>])
                  @@ @],
     socket |-> Cardinality(DOMAIN self.sockets) + 1]

\* An endpoint is a text in pieces; strstr (protocol, "://") finds the first
\* separator, 0 when there is none
scheme_end(endpoint) ==
    IF \E k \in 1 .. Len(endpoint) : endpoint[k] = "://"
    THEN CHOOSE k \in 1 .. Len(endpoint) :
            endpoint[k] = "://" /\ \A j \in 1 .. (k - 1) : endpoint[j] # "://"
    ELSE 0

\* atoi of the driver's reply
atoi(reply) == IF reply = "1" THEN 1 ELSE 0

\* The request goes to the command pipe of the socket's driver and the
\* driver's reply is the result; a socket without a driver has no pipe
driver_request(self, socket, command, address, reply) ==
    IF self.sockets[socket].driver = <<>>
    THEN [self |-> self, rc |-> 0, st |-> "ub"]
    ELSE [self |-> [self EXCEPT !.drivers[self.sockets[socket].driver].commands =
                       Append(@, <<command, self.sockets[socket].type, socket,
                                   address>>)],
          rc |-> atoi(reply), st |-> "ok"]

\* A call that makes the unknown scheme the socket's driver, for comparison
s_driver_call_sticky(self, socket, command, endpoint, reply) ==
    IF socket \notin DOMAIN self.sockets \/ endpoint = <<>> \/ scheme_end(endpoint) = 0
    THEN [self |-> self, rc |-> -1, st |-> "ok"]
    ELSE IF self.sockets[socket].driver \notin {<<>>, SubSeq(endpoint, 1, scheme_end(endpoint) - 1)}
    THEN [self |-> self, rc |-> -1, st |-> "ok"]
    ELSE IF SubSeq(endpoint, 1, scheme_end(endpoint) - 1) \notin DOMAIN self.drivers
    THEN [self |-> [self EXCEPT !.sockets[socket].driver =
                       SubSeq(endpoint, 1, scheme_end(endpoint) - 1)],
          rc |-> -1, st |-> "ok"]
    ELSE driver_request(
            [self EXCEPT !.sockets[socket].driver =
                SubSeq(endpoint, 1, scheme_end(endpoint) - 1)],
            socket, command,
            SubSeq(endpoint, scheme_end(endpoint) + 1, Len(endpoint)), reply)

\* s_driver_call: the socket must exist; an endpoint is split at its
\* separator and its scheme must name a registered driver, the one of the
\* socket if it has one; then the request is sent.  No endpoint is NULL (<<>>)
s_driver_call(self, socket, command, endpoint, reply) ==
    IF socket \notin DOMAIN self.sockets
    THEN [self |-> self, rc |-> -1, st |-> "ok"]
    ELSE IF endpoint = <<>>
    THEN driver_request(self, socket, command, <<>>, reply)
    ELSE IF scheme_end(endpoint) = 0
    THEN [self |-> self, rc |-> -1, st |-> "ok"]
    ELSE IF SubSeq(endpoint, 1, scheme_end(endpoint) - 1) \notin DOMAIN self.drivers
    THEN [self |-> self, rc |-> -1, st |-> "ok"]
    ELSE IF self.sockets[socket].driver
            \notin {<<>>, SubSeq(endpoint, 1, scheme_end(endpoint) - 1)}
    THEN [self |-> self, rc |-> -1, st |-> "ok"]
    ELSE driver_request(
            [self EXCEPT !.sockets[socket].driver =
                SubSeq(endpoint, 1, scheme_end(endpoint) - 1)],
            socket, command,
            SubSeq(endpoint, scheme_end(endpoint) + 1, Len(endpoint)), reply)

vtx_bind(self, socket, endpoint, reply) ==
    s_driver_call(self, socket, "BIND", endpoint, reply)

vtx_connect(self, socket, endpoint, reply) ==
    s_driver_call(self, socket, "CONNECT", endpoint, reply)

vtx_close(self, socket, reply) ==
    s_driver_call(self, socket, "CLOSE", <<>>, reply)

(***************************************************************************)
(*                                 STATE                                   *)
(***************************************************************************)
VARIABLES
    codec1,     \* the codec frames are stored into (codec1 of the selftest)
    codec2,     \* the codec fed with codec1's serialized data (codec2)
    stored,     \* the frames vtx_codec_msg_put accepted, in order
    fetched,    \* the frames vtx_codec_msg_get returned, in order
    offered,    \* number of vtx_codec_msg_put calls made
    lastGet,    \* outcome of the latest vtx_codec_msg_get: "none", "frame", "empty"
    cstatus,    \* "ok", or how the program using the codecs ended: "abort", "ub"
    vockets,    \* the vockets of the UDP drivers, by number
    net,        \* datagrams on their way between the vockets
    mailbox,    \* per vocket, the messages its application has sent and the
                \* driver has not yet taken off the message pipe
    inbox,      \* per vocket, what the driver passed to the application
    dstatus,    \* per vocket, "ok" or how its driver ended: "abort", "ub"
    last,       \* the handler that ran last, and its input
    used,       \* how many inputs of each kind the environment has given
    budget,     \* how many inputs of each kind it gives at most
    queue,      \* the ring queue of vtx_queue.c
    frames,     \* the frames the ring queue owns: stored and not destroyed
    vtx,        \* the vtx_t of vtx.c: its drivers and its sockets
    clock       \* per vocket and peering, the time left until the expiry time,
                \* until the silent time and until the monitor timer fires

codecVars == <<codec1, codec2, stored, fetched, offered, lastGet, cstatus>>

Budget(control, send, input, time, fail) ==
    [control |-> control, send |-> send, input |-> input, time |-> time,
     fail |-> fail]

udpVars == <<vockets, net, mailbox, inbox, dstatus, last, used, budget, clock>>

queueVars == <<queue, frames>>

vars == <<codec1, codec2, stored, fetched, offered, lastGet, cstatus,
          vockets, net, mailbox, inbox, dstatus, last, used, budget,
          queue, frames, vtx, clock>>

\* The UDP driver while the codec is exercised on its own: not started
UdpIdle ==
    /\ vockets = <<>>
    /\ net = {}
    /\ mailbox = <<>>
    /\ inbox = <<>>
    /\ dstatus = <<>>
    /\ last = [op |-> "none"]
    /\ used = Budget(0, 0, 0, 0, 0)
    /\ budget = Budget(0, 0, 0, 0, 0)
    /\ clock = <<>>

\* The codecs while the UDP driver is exercised: the driver does not use them
CodecIdle ==
    /\ codec1 = vtx_codec_new(CodecLimit, 0)
    /\ codec2 = vtx_codec_new(Codec2Limit, 0)
    /\ stored = <<>>
    /\ fetched = <<>>
    /\ offered = 0
    /\ lastGet = "none"
    /\ cstatus = "ok"

\* The ring queue and the registry while something else is exercised
QueueIdle ==
    /\ queue = queue_new(MaxLimit)
    /\ frames = {}

VtxIdle == vtx = vtx_new

(***************************************************************************)
(* The codec's callers.  CodecInit is the state after vtx_codec_new: the   *)
(* data buffer starts at the position s_random returned.                   *)
(***************************************************************************)
CodecInit ==
    /\ \E start \in Codec1Starts : codec1 = vtx_codec_new(CodecLimit, start)
    /\ codec2 = vtx_codec_new(CodecLimit, 0)
    /\ stored = <<>>
    /\ fetched = <<>>
    /\ offered = 0
    /\ lastGet = "none"
    /\ cstatus = "ok"
    /\ UdpIdle
    /\ QueueIdle
    /\ VtxIdle

\* rc = vtx_codec_msg_put (codec1, &msg, more)
MsgPut ==
    /\ cstatus = "ok"
    /\ offered < MaxPuts
    /\ \E size \in FrameSizes, more \in BOOLEAN :
         \E r \in {vtx_codec_msg_put(codec1, Frame(size, offered + 1, more))} :
            /\ codec1' = r.c
            /\ stored' = IF r.rc = 0
                         THEN Append(stored, Frame(size, offered + 1, more))
                         ELSE stored
    /\ offered' = offered + 1
    /\ UNCHANGED <<udpVars, queueVars, vtx, codec2, fetched, lastGet, cstatus>>

\* rc = vtx_codec_msg_get (codec1, &msg, &more)
MsgGet1 ==
    /\ cstatus = "ok"
    /\ \E r \in {vtx_codec_msg_get(codec1)} :
           /\ codec1' = r.c
           /\ cstatus' = r.st
           /\ fetched' = IF r.rc = 0
                         THEN Append(fetched, [body |-> r.msg.body, more |-> r.msg.more])
                         ELSE fetched
           /\ lastGet' = IF r.rc = 0 THEN "frame"
                         ELSE IF r.st = "ok" THEN "empty" ELSE lastGet
    /\ UNCHANGED <<udpVars, queueVars, vtx, codec2, stored, offered>>

RoundTripNext == MsgPut \/ MsgGet1

SpecRoundTrip == CodecInit /\ [][RoundTripNext]_vars

\* q is an initial part of s
IsPrefix(q, s) == Len(q) <= Len(s) /\ SubSeq(s, 1, Len(q)) = q

\* C1: codec round trip.  The frames vtx_codec_msg_get returns are, in order
\* and with the same sizes and 'more' flags, the frames vtx_codec_msg_put
\* accepted; once the codec holds nothing more every accepted frame has been
\* returned, and a get on the emptied codec reports empty: the program using
\* the codec is still running.
C1_RoundTrip ==
    /\ cstatus = "ok"
    /\ IsPrefix(fetched, stored)
    /\ (vtx_codec_active(codec1) = 0 => fetched = stored)

(***************************************************************************)
(* The dual path of vtx_codec_selftest: frames go into codec1, codec1's    *)
(* serialized runs are recycled into codec2, frames come out of codec2.    *)
(***************************************************************************)
DualInit ==
    /\ \E start \in Codec1Starts : codec1 = vtx_codec_new(CodecLimit, start)
    /\ \E start \in Codec2Starts : codec2 = vtx_codec_new(Codec2Limit, start)
    /\ stored = <<>>
    /\ fetched = <<>>
    /\ offered = 0
    /\ lastGet = "none"
    /\ cstatus = "ok"
    /\ UdpIdle
    /\ QueueIdle
    /\ VtxIdle

\* One turn of the recycling loop: bin_get (codec1), bin_put (codec2),
\* assert (rc == 0), bin_tick (codec1, size)
Recycle ==
    /\ cstatus = "ok"
    /\ \E g \in {vtx_codec_bin_get(codec1)} :
           /\ g.size # 0
           /\ \E p \in {vtx_codec_bin_put(codec2, g.data)},
                 t \in {vtx_codec_bin_tick(g.c, g.size)} :
                  /\ codec2' = p.c
                  /\ codec1' = IF g.st = "ok" /\ p.rc = 0 THEN t.c ELSE g.c
                  /\ cstatus' = IF g.st # "ok" THEN g.st
                                ELSE IF p.rc # 0 THEN "abort"
                                ELSE t.st
    /\ UNCHANGED <<udpVars, queueVars, vtx, stored, fetched, offered, lastGet>>

\* rc = vtx_codec_msg_get (codec2, &msg, &more)
MsgGet2 ==
    /\ cstatus = "ok"
    /\ \E r \in {vtx_codec_msg_get(codec2)} :
           /\ codec2' = r.c
           /\ cstatus' = r.st
           /\ fetched' = IF r.rc = 0
                         THEN Append(fetched, [body |-> r.msg.body, more |-> r.msg.more])
                         ELSE fetched
           /\ lastGet' = IF r.rc = 0 THEN "frame"
                         ELSE IF r.st = "ok" THEN "empty" ELSE lastGet
    /\ UNCHANGED <<udpVars, queueVars, vtx, codec1, stored, offered>>

DualPathNext == MsgPut \/ Recycle \/ MsgGet2

SpecDualPath == DualInit /\ [][DualPathNext]_vars

\* C2: codec dual path.  In every interleaving of storing frames into codec1,
\* recycling codec1's runs into codec2 and getting frames from codec2, the
\* frames obtained from codec2 are the frames stored into codec1, in order,
\* with sizes and 'more' flags, all of them once both codecs are drained; no
\* interleaving ends the program.
C2_DualPath ==
    /\ cstatus = "ok"
    /\ IsPrefix(fetched, stored)
    /\ (vtx_codec_active(codec1) = 0 /\ vtx_codec_active(codec2) = 0
            => fetched = stored)

(***************************************************************************)
(* One vocket of the UDP driver, with its application and with remote      *)
(* peers that may send it any datagram.                                    *)
(***************************************************************************)
SockTypes == DOMAIN s_vocket_config

\* the address of vocket i's own UDP handle
Local(i) == <<IF i = 1 THEN "h1" ELSE "h2", 9>>
\* the addresses remote peers send from
Peers == {<<"h2", 9>>, <<"h3", 9>>}
\* the addresses the application connects and binds to
ConnectAddresses == {<<"h2", 5>>, <<"*", 5>>}
BindAddresses == {<<"*", 5>>}
\* what sendto can do
IO == {"ok", "retry", "abandon"}

\* The datagrams a remote peer at address from may send: the NOM-1
\* commands, a command and a version out of range, bodies a NOM cannot carry
EnvDatagram(from, to, version, flags, command, seq, body) ==
    [from |-> from, to |-> to, version |-> version, flags |-> flags,
     command |-> command, seq |-> seq, body |-> body]

EnvDatagrams(from) ==
    {EnvDatagram(from, <<"h1", 5>>, VTX_UDP_VERSION, 0, c, 0, NoBody) :
        c \in {VTX_UDP_ROTFL, VTX_UDP_HUGZ, VTX_UDP_HUGZ_OK, VTX_UDP_CMDLIMIT}}
    \cup
    {EnvDatagram(from, <<"h1", 5>>, ver, 0, VTX_UDP_OHAI, 0, TextBody(<<"h1", 5>>)) :
        ver \in {VTX_UDP_VERSION, 0}}
    \cup
    {EnvDatagram(from, <<"h1", 9>>, VTX_UDP_VERSION, 0, VTX_UDP_OHAI_OK, 0,
                 TextBody(key)) : key \in {<<"h2", 5>>, from}}
    \cup
    {EnvDatagram(from, <<"h1", 9>>, VTX_UDP_VERSION, f, VTX_UDP_NOM, q,
                 MsgBody(Msg(<<DataFrame(q + 1, 10, 0)>>))) :
        f \in {0, VTX_UDP_RESEND}, q \in {0, 1}}
    \cup
    {EnvDatagram(from, <<"h1", 9>>, VTX_UDP_VERSION, 0, VTX_UDP_NOM, 1, JunkBody)}

\* The datagrams of remote peers that ask for service: OHAI and requests
RequestDatagrams(from) ==
    {d \in EnvDatagrams(from) :
        \/ d.command = VTX_UDP_OHAI /\ d.version = VTX_UDP_VERSION
        \/ d.command = VTX_UDP_NOM /\ d.body.kind = "msg"}

\* The vockets v, their applications and their peers yet to act
VocketInit(v, limit) ==
    /\ vockets = v
    /\ net = {}
    /\ mailbox = [i \in DOMAIN v |-> <<>>]
    /\ inbox = [i \in DOMAIN v |-> <<>>]
    /\ dstatus = [i \in DOMAIN v |-> "ok"]
    /\ last = [op |-> "none"]
    /\ used = Budget(0, 0, 0, 0, 0)
    /\ budget = limit
    /\ clock = <<>>
    /\ CodecIdle
    /\ QueueIdle
    /\ VtxIdle

\* Whether a datagram sent to the address to arrives at the vocket: on its
\* own handle, or on the handle of a binding to that port
Listens(v, to) ==
    \/ to = v.handle
    \/ /\ to[1] \in {s_broadcast_addr, v.handle[1]}
       /\ <<"*", to[2]>> \in v.bound

\* The datagrams of tx that are addressed to another vocket of the model
Wire(i, tx) ==
    {tx[k] : k \in {n \in 1..Len(tx) :
                      \E j \in DOMAIN vockets \ {i} : Listens(vockets[j], tx[n].to)}}

\* What sendto does in this handler: it fails MaxFail times at most
IOs == IF used.fail < budget.fail THEN IO ELSE {"ok"}

\* The handler of vocket i returns to the reactor, leaving the vocket as r.
\* A handler that used freed memory may have crashed the driver.
Return(i, r, io) ==
    /\ vockets' = [vockets EXCEPT ![i] = r]
    /\ inbox' = [inbox EXCEPT ![i] = @ \o r.out]
    /\ net' = (IF last'.op = "net" THEN net \ {last'.d} ELSE net) \cup Wire(i, r.tx)
    /\ used' = [used EXCEPT
                  !.fail = IF io = "ok" THEN @ ELSE @ + 1,
                  !.control = IF last'.op = "control" THEN @ + 1 ELSE @,
                  !.input = IF last'.op = "input" THEN @ + 1 ELSE @]
    /\ \E outcome \in (IF r.uaf THEN {"stale", "crash"} ELSE {"stale"}) :
          dstatus' = [dstatus EXCEPT ![i] =
                         IF r.failed # "" THEN "abort"
                         ELSE IF outcome = "crash" THEN "ub"
                         ELSE "ok"]
    /\ UNCHANGED <<codecVars, queueVars, vtx, budget>>

\* the peerings of the vocket's peering table
Table(v) == {v.peering_hash[key] : key \in DOMAIN v.peering_hash}

\* The pointers to peering_t the vocket holds
Held(v) ==
    {v.reply_to} \cup ListSet(v.live_peerings) \cup ListSet(v.peering_list)
    \cup {t[2] : t \in v.timers}

\* a heap cell malloc may return for a new peering_t (0 when the model's
\* heap is used up): any free cell.  While no pointer to a free cell is
\* held the free cells cannot be told apart and the first stands for all.
NewCells(v) ==
    IF v.free = {} THEN {0}
    ELSE IF Held(v) \cap v.free = {}
    THEN {CHOOSE c \in v.free : \A other \in v.free : c <= other}
    ELSE v.free

\* Whether the handler allocates a peering_t: a connect to an address, or an
\* OHAI from an address, that the peering table does not hold
ConnectAllocates(v, command, address) ==
    /\ command = "CONNECT"
    /\ v.peerings < v.max_peerings
    /\ address \notin DOMAIN v.peering_hash

InputAllocates(v, d) ==
    /\ d.command = VTX_UDP_OHAI
    /\ d.version = VTX_UDP_VERSION
    /\ s_sin_addr_to_str(d.from) \notin DOMAIN v.peering_hash

\* The application calls vtx_bind with one of the addresses binds, or
\* vtx_connect with one of the addresses connects
Control(i, binds, connects) ==
    /\ dstatus[i] = "ok"
    /\ used.control < budget.control
    /\ \E command \in {"BIND", "CONNECT"}, p \in NewCells(vockets[i]), io \in IOs :
         \E address \in (IF command = "BIND" THEN binds ELSE connects) :
            /\ p # 0 \/ ~ConnectAllocates(vockets[i], command, address)
            /\ last' = [op |-> "control", i |-> i, command |-> command,
                        address |-> address]
            /\ Return(i, s_driver_control(vockets[i], command, address, p, io), io)
    /\ UNCHANGED <<mailbox, clock>>

\* The message the application of vocket i sends next: a REP application
\* answers the requests in the order it got them, a ROUTER application
\* addresses a peer, with the scheme of this driver or of another
AppMessages(i) ==
    IF vockets[i].socktype = "REP"
    THEN IF used.send < Len(inbox[i])
         THEN {Msg(<<DataFrame(used.send + 1, 10, used.send + 1)>>)}
         ELSE {}
    ELSE IF vockets[i].socktype = "ROUTER"
    THEN {Msg(<<TextFrame("udp", key), DataFrame(used.send + 1, 10, 0)>>) :
             key \in Peers}
         \cup {Msg(<<TextFrame("tcp", <<"h2", 9>>), DataFrame(used.send + 1, 10, 0)>>)}
    ELSE {Msg(<<DataFrame(used.send + 1, 10, 0)>>)}

\* The application sends a message on its socket
AppSend(i) ==
    /\ used.send < budget.send
    /\ \E msg \in AppMessages(i) :
          mailbox' = [mailbox EXCEPT ![i] = Append(@, msg)]
    /\ used' = [used EXCEPT !.send = @ + 1]
    /\ last' = [op |-> "app", i |-> i]
    /\ UNCHANGED <<codecVars, queueVars, vtx, vockets, net, inbox, dstatus, budget,
                   clock>>

\* The reactor finds a message on the pipe it polls for the vocket
VocketInput(i) ==
    /\ dstatus[i] = "ok"
    /\ vockets[i].polling > 0
    /\ mailbox[i] # <<>>
    /\ Len(vockets[i].live_peerings) >= vockets[i].min_peerings
    /\ last' = [op |-> "send", i |-> i, msg |-> Head(mailbox[i])]
    /\ \E io \in IOs :
          Return(i, s_vocket_input(vockets[i], Head(mailbox[i]), io), io)
    /\ mailbox' = [mailbox EXCEPT ![i] = Tail(@)]
    /\ UNCHANGED clock

\* A datagram, one of datagrams, arrives from a remote peer on a handle of
\* the vocket
PeerInput(i, datagrams) ==
    /\ dstatus[i] = "ok"
    /\ used.input < budget.input
    /\ \E p \in NewCells(vockets[i]), io \in IOs :
         \E d \in datagrams :
            /\ p # 0 \/ ~InputAllocates(vockets[i], d)
            /\ Listens(vockets[i], d.to)
            /\ last' = [op |-> "input", i |-> i, d |-> d]
            /\ Return(i, s_binding_input(vockets[i], d, p, io), io)
    /\ UNCHANGED <<mailbox, clock>>

\* A datagram that another vocket sent arrives on a handle of the vocket
NetInput(i) ==
    /\ dstatus[i] = "ok"
    /\ \E d \in net, p \in NewCells(vockets[i]), io \in IOs :
          /\ p # 0 \/ ~InputAllocates(vockets[i], d)
          /\ Listens(vockets[i], d.to)
          /\ d.from # vockets[i].handle
          /\ last' = [op |-> "net", i |-> i, d |-> d]
          /\ Return(i, s_binding_input(vockets[i], d, p, io), io)
    /\ UNCHANGED <<mailbox, clock>>

\* Whether a timer handler that left the vocket as r did anything; one that
\* did nothing is a stuttering step
Acted(v, r) ==
    \/ r.tx # <<>>
    \/ r.failed # ""
    \/ r.uaf
    \/ [r EXCEPT !.ret = 0, !.rc = 0] # [Enter(v) EXCEPT !.ret = 0, !.rc = 0]

\* The monitor timer of a peering fires
MonitorTimer(i) ==
    /\ dstatus[i] = "ok"
    /\ \E t \in vockets[i].timers, io \in IOs :
          /\ t[1] = "monitor"
          /\ last' = [op |-> "monitor", i |-> i, peering |-> t[2]]
          /\ \E r \in {s_peering_monitor(
                          Enter([vockets[i] EXCEPT !.timers = @ \ {t}]), t[2], io)} :
                /\ Acted(vockets[i], r)
                /\ Return(i, r, io)
    /\ UNCHANGED <<mailbox, clock>>

\* The resend timer of a peering fires
ResendTimer(i) ==
    /\ dstatus[i] = "ok"
    /\ \E t \in vockets[i].timers, io \in IOs :
          /\ t[1] = "resend"
          /\ last' = [op |-> "resend", i |-> i, peering |-> t[2]]
          /\ \E r \in {s_resend_timer(Enter(vockets[i]), t[2], io)} :
                /\ Acted(vockets[i], r)
                /\ Return(i, r, io)
    /\ UNCHANGED <<mailbox, clock>>

\* Time passes: the expiry or the silent time of an alive peering is reached
Elapse(i) ==
    /\ dstatus[i] = "ok"
    /\ used.time < budget.time
    /\ \E p \in Cells \ vockets[i].free, field \in {"expiry", "silent"} :
          /\ vockets[i].heap[p].alive
          /\ vockets[i].heap[p][field] = "future"
          /\ vockets' = [vockets EXCEPT ![i].heap[p][field] = "passed"]
    /\ used' = [used EXCEPT !.time = @ + 1]
    /\ last' = [op |-> "time", i |-> i]
    /\ UNCHANGED <<codecVars, queueVars, vtx, net, mailbox, inbox, dstatus, budget,
                   clock>>

\* ---- a vocket of any socket type and peers that send it anything ----
SingleInit ==
    \E socktype \in SockTypes :
       VocketInit(<<vocket_new(socktype, Local(1))>>,
                  Budget(MaxControl, MaxSend, MaxInput, MaxTime, MaxFail))

SingleNext ==
    \/ Control(1, BindAddresses, ConnectAddresses)
    \/ AppSend(1)
    \/ VocketInput(1)
    \/ PeerInput(1, EnvDatagrams(<<"h2", 9>>))
    \/ MonitorTimer(1)
    \/ ResendTimer(1)
    \/ Elapse(1)

SpecVocket == SingleInit /\ [][SingleNext]_vars

\* ---- a serving vocket and peers that send it requests ----
\* a vocket that the application has bound to address
Bound(socktype, i, address) ==
    Enter(s_driver_control(vocket_new(socktype, Local(i)), "BIND", address, 0, "ok"))

ReplyInit ==
    \E socktype \in {"REP", "ROUTER", "DEALER"} :
       VocketInit(<<Bound(socktype, 1, <<"*", 5>>)>>,
                  Budget(0, MaxReplies, MaxRequests, MaxTime, 0))

ReplyNext ==
    \/ AppSend(1)
    \/ VocketInput(1)
    \/ PeerInput(1, UNION {RequestDatagrams(from) : from \in Peers})
    \/ MonitorTimer(1)
    \/ Elapse(1)

SpecReply == ReplyInit /\ [][ReplyNext]_vars

\* ---- two PAIR vockets that bind and connect to each other ----
PairInit ==
    VocketInit(<<vocket_new("PAIR", Local(1)), vocket_new("PAIR", Local(2))>>,
               Budget(4, MaxSend, 0, 0, 0))

\* the addresses the application of a vocket of the pair binds next, and
\* connects to next: it binds its endpoint and then connects to the bound
\* endpoint of the other if the vocket has no outgoing peering
PairBinds(v) == IF v.bound = {} THEN {<<"*", 5>>} ELSE {}
PairConnects(v) ==
    IF v.bound # {} /\ \A p \in Table(v) : ~v.heap[p].outgoing
    THEN {<<IF v.handle[1] = "h1" THEN "h2" ELSE "h1", 5>>}
    ELSE {}

PairStep(i) ==
    \/ Control(i, PairBinds(vockets[i]), PairConnects(vockets[i]))
    \/ AppSend(i)
    \/ VocketInput(i)
    \/ NetInput(i)
    \/ MonitorTimer(i)

PairNext == PairStep(1) \/ PairStep(2)

\* every handler that has something to do runs in the end
PairFair(i) ==
    /\ WF_vars(Control(i, PairBinds(vockets[i]), PairConnects(vockets[i])))
    /\ WF_vars(VocketInput(i))
    /\ WF_vars(NetInput(i))
    /\ WF_vars(MonitorTimer(i))

SpecPair == PairInit /\ [][PairNext]_vars /\ PairFair(1) /\ PairFair(2)

\* ---- what the claims see of a handler that has just returned ----
\* the address a datagram of tx went to, as the string the driver logs
Destination(d) == s_sin_addr_to_str(d.to)
\* the request of the application's inbox that the message msg answers
Answered(i, msg) == inbox[i][msg.frames[1].re]
\* the handler that returned last took the application's message off the
\* mailbox of a vocket of this routing
Sent(i, routing) == last.op = "send" /\ last.i = i /\ vockets[i].routing = routing
\* no peering of the vocket has been destroyed so far
NoneDestroyed(v) == Held(v) \cap v.free = {} /\ ~v.uaf

\* every peer has sent the vocket one request at most
OneRequestEach(i) ==
    \A j, k \in 1..Len(inbox[i]) : j # k => inbox[i][j].from # inbox[i][k].from

\* C3: on a REP vocket with several peers every reply of the application
\* goes, in one datagram, to the peer whose request it answers, also when
\* another peer's request came in between (stated for behaviours in which no
\* peering was destroyed and no peer sent a second request)
C3_ReplyToRequester ==
    (Sent(1, "REPLY") /\ NoneDestroyed(vockets[1]) /\ OneRequestEach(1)) =>
        /\ Len(vockets[1].tx) = 1
        /\ Destination(vockets[1].tx[1]) = Answered(1, last.msg).from

\* C4: a REP vocket sends the application's message to the peering the most
\* recent request came from and empties reply_to; with reply_to empty it
\* sends nothing
C4_ReplyRouting ==
    [][(last'.op = "send" /\ vockets'[1].routing = "REPLY") =>
         IF vockets[1].reply_to = 0
         THEN vockets'[1].tx = <<>>
         ELSE /\ dstatus'[1] = "ok"
              /\ vockets'[1].reply_to = 0
              /\ Len(vockets'[1].tx) = 1
              /\ Destination(vockets'[1].tx[1]) = inbox[1][Len(inbox[1])].from]_vars

\* the datagram d is a request that repeats, with the RESEND flag, the
\* sequence of the last request the vocket v accepted from its sender
Duplicate(v, d) ==
    /\ d.command = VTX_UDP_NOM
    /\ d.version = VTX_UDP_VERSION
    /\ ~zmsg_decode(d.body).null
    /\ d.flags % 2 = VTX_UDP_RESEND
    /\ s_sin_addr_to_str(d.from) \in DOMAIN v.peering_hash
    /\ d.seq = v.heap[v.peering_hash[s_sin_addr_to_str(d.from)]].recvseq
    /\ \E k \in 1..Len(inbox[1]) : inbox[1][k].from = s_sin_addr_to_str(d.from)

\* C5: a REP, ROUTER or DEALER vocket answers a request that comes again
\* (RESEND flag, sequence of the last accepted request) by sending the stored
\* last reply once more; it delivers nothing to the application and leaves
\* reply_to and recvseq as they are
C5_Dedup ==
    [][(/\ last'.op = "input"
        /\ NoneDestroyed(vockets[1])
        /\ Duplicate(vockets[1], last'.d)) =>
         \E p \in {vockets[1].peering_hash[s_sin_addr_to_str(last'.d.from)]} :
            /\ dstatus'[1] = "ok"
            /\ ~vockets[1].heap[p].reply.null
            /\ Len(vockets'[1].tx) = 1
            /\ vockets'[1].tx[1].command = VTX_UDP_NOM
            /\ vockets'[1].tx[1].body = MsgBody(vockets[1].heap[p].reply)
            /\ vockets'[1].tx[1].to = last'.d.from
            /\ inbox' = inbox
            /\ vockets'[1].reply_to = vockets[1].reply_to
            /\ vockets'[1].heap[p].recvseq = vockets[1].heap[p].recvseq]_vars

\* C6: no datagram from a remote peer makes an assertion of the inbound
\* handler fail
C6_NoInboundAssert == ~(last.op = "input" /\ dstatus[1] = "abort")

\* C7: after every handler live_peerings holds exactly the peerings of the
\* peering table that are alive, each once, and no destroyed peering
C7_LiveMembership ==
    dstatus[1] = "ok" =>
       /\ ListSet(vockets[1].live_peerings) \cap vockets[1].free = {}
       /\ ListSet(vockets[1].live_peerings)
            = {p \in Table(vockets[1]) : vockets[1].heap[p].alive}
       /\ Cardinality(ListSet(vockets[1].live_peerings))
            = Len(vockets[1].live_peerings)

\* the handler that returned last was this control command, which succeeded
Controlled(command) ==
    last.op = "control" /\ last.command = command /\ vockets[1].reply = "0"

\* C8: with any socket pattern, a connect that follows an identical connect
\* succeeds too and adds no peering to the one the first connect made
C8_IdempotentConnect ==
    [][(Controlled("CONNECT") /\ last' = last) =>
         /\ vockets'[1].reply = "0"
         /\ vockets'[1].peering_hash = vockets[1].peering_hash
         /\ vockets'[1].peering_list = vockets[1].peering_list
         /\ last.address \in DOMAIN vockets'[1].peering_hash]_vars

\* C9: a bind that follows an identical bind succeeds too, finds the binding
\* of the first and opens no handle; the vocket has one binding
C9_IdempotentBind ==
    [][(Controlled("BIND") /\ last' = last) =>
         /\ vockets'[1].reply = "0"
         /\ vockets'[1].handles = vockets[1].handles
         /\ vockets'[1].binding_hash = vockets[1].binding_hash
         /\ Cardinality(DOMAIN vockets'[1].binding_hash) = 1]_vars

\* C10: two PAIR vockets that bind and connect to each other have, in the
\* end, one alive peering each and nothing left waiting in a mailbox
C10_PairPair ==
    <>(\A i \in {1, 2} : /\ Len(vockets[i].live_peerings) = 1
                         /\ dstatus[i] = "ok"
                         /\ mailbox[i] = <<>>)

(***************************************************************************)
(* A vocket that connects to the wildcard address, and responders of the   *)
(* LAN that answer its broadcast OHAI with an OHAI-OK that echoes the body *)
(* of an OHAI the vocket sends.                                            *)
(***************************************************************************)
\* how many connects, OHAI-OKs and expiries one such behaviour sees
MaxBroadcastControl == 2
MaxBroadcastInput == 3
MaxBroadcastTime == 2

\* The OHAI-OKs of a responder: the body is that of an OHAI of a broadcast
\* peering, its address, which is the address it was connected to or the
\* text of its broadcast sockaddr_in
OhaiOks(from) ==
    {EnvDatagram(from, <<"h1", 9>>, VTX_UDP_VERSION, 0, VTX_UDP_OHAI_OK, 0,
                 TextBody(key)) :
        key \in {<<"*", 5>>, s_sin_addr_to_str(<<s_broadcast_addr, 5>>)}}

BroadcastInit ==
    \E socktype \in {"REQ", "PUB", "PAIR"} :
       VocketInit(<<vocket_new(socktype, Local(1))>>,
                  Budget(MaxBroadcastControl, 0, MaxBroadcastInput,
                         MaxBroadcastTime, 0))

BroadcastNext ==
    \/ Control(1, {}, {<<"*", 5>>})
    \/ PeerInput(1, UNION {OhaiOks(from) : from \in Peers})
    \/ MonitorTimer(1)
    \/ Elapse(1)

SpecBroadcast == BroadcastInit /\ [][BroadcastNext]_vars

\* the key the broadcast peering p was stored under when connect created it:
\* the wildcard address the application connected to
CreatedKey(v, p) == <<"*", v.heap[p].bcast[2]>>

\* a connect to a wildcard address that is not in the peering table stores
\* a dead broadcast peering under that address
BroadcastStored ==
    (/\ last'.op = "control"
     /\ last'.command = "CONNECT"
     /\ last'.address[1] = "*"
     /\ ConnectAllocates(vockets[1], "CONNECT", last'.address)) =>
        /\ last'.address \in DOMAIN vockets'[1].peering_hash
        /\ \E p \in {vockets'[1].peering_hash[last'.address]} :
              /\ vockets'[1].heap[p].broadcast
              /\ CreatedKey(vockets'[1], p) = last'.address
              /\ p \notin vockets'[1].free

\* the first OHAI-OK that echoes the key of a dead broadcast peering, from an
\* address the table does not hold, moves the peering to the sender's address
BroadcastFocused ==
    (/\ last'.op = "input"
     /\ last'.d.command = VTX_UDP_OHAI_OK
     /\ s_sin_addr_to_str(last'.d.from) \notin DOMAIN vockets[1].peering_hash
     /\ BodyKey(last'.d.body) \in DOMAIN vockets[1].peering_hash
     /\ vockets[1].heap[vockets[1].peering_hash[BodyKey(last'.d.body)]].broadcast
     /\ ~vockets[1].heap[vockets[1].peering_hash[BodyKey(last'.d.body)]].alive) =>
        \E p \in {vockets[1].peering_hash[BodyKey(last'.d.body)]} :
           /\ dstatus'[1] = "ok"
           /\ BodyKey(last'.d.body) \notin DOMAIN vockets'[1].peering_hash
           /\ zhash_lookup(vockets'[1].peering_hash, s_sin_addr_to_str(last'.d.from)) = p
           /\ vockets'[1].heap[p].addr = last'.d.from
           /\ vockets'[1].heap[p].alive

\* the monitor of an alive broadcast peering whose expiry has passed
Expires(p) ==
    /\ last'.op = "monitor"
    /\ last'.peering = p
    /\ p \notin vockets[1].free
    /\ vockets[1].heap[p].alive
    /\ vockets[1].heap[p].expiry = "passed"
    /\ vockets[1].heap[p].broadcast

\* what an expiry leaves of the broadcast peering p, whatever its key: it is
\* dead, not destroyed, sends to the broadcast address and is monitored
Unfocused(p) ==
    /\ dstatus'[1] = "ok"
    /\ p \notin vockets'[1].free
    /\ ~vockets'[1].heap[p].alive
    /\ p \notin ListSet(vockets'[1].live_peerings)
    /\ vockets'[1].heap[p].addr = vockets[1].heap[p].bcast
    /\ <<"monitor", p>> \in vockets'[1].timers

\* an expired broadcast peering is unfocused to the key it was created under
BroadcastUnfocused ==
    \A p \in Cells :
       Expires(p) =>
          /\ Unfocused(p)
          /\ zhash_lookup(vockets'[1].peering_hash, CreatedKey(vockets[1], p)) = p

\* C11: a connect to a wildcard address stores a broadcast peering under that
\* address; the first OHAI-OK that echoes the key renames the key to the
\* sender's address and updates the socket address; when the focused peering
\* expires it is not destroyed but goes back under the key it was created
\* under, and is monitored again
C11_BroadcastFocus ==
    [][BroadcastStored /\ BroadcastFocused /\ BroadcastUnfocused]_vars

(***************************************************************************)
(* A client vocket connected to the bound endpoint of a server vocket,     *)
(* from the moment the peering is alive on both sides.  The server's       *)
(* silence is the passing of the client's expiry time.                     *)
(***************************************************************************)
\* how many times an expiry or silent time is reached in one such behaviour
MaxOutages == 2

\* The two vockets once the client's OHAI was answered: the client connects
\* to h2:5, the server, bound to *:5, gets the OHAI and answers, the client
\* gets the OHAI-OK.  k = 1 is the client, k = 2 the server.
Connected(client, server, k) ==
    IF k = 1
    THEN Enter(s_binding_input(
                  s_driver_control(vocket_new(client, Local(1)), "CONNECT",
                                   <<"h2", 5>>, 1, "ok"),
                  s_binding_input(
                      Bound(server, 2, <<"*", 5>>),
                      s_driver_control(vocket_new(client, Local(1)), "CONNECT",
                                       <<"h2", 5>>, 1, "ok").tx[1],
                      1, "ok").tx[1],
                  0, "ok"))
    ELSE Enter(s_binding_input(
                  Bound(server, 2, <<"*", 5>>),
                  s_driver_control(vocket_new(client, Local(1)), "CONNECT",
                                   <<"h2", 5>>, 1, "ok").tx[1],
                  1, "ok"))

ResurrectInit ==
    \E types \in {<<"REQ", "REP">>, <<"SUB", "PUB">>, <<"PAIR", "PAIR">>} :
       VocketInit(<<Connected(types[1], types[2], 1),
                    Connected(types[1], types[2], 2)>>,
                  Budget(0, 0, 0, MaxOutages, 0))

ResurrectNext ==
    \/ NetInput(1)
    \/ NetInput(2)
    \/ MonitorTimer(1)
    \/ MonitorTimer(2)
    \/ Elapse(1)
    \/ Elapse(2)

\* the reactor runs every handler that has something to do
SpecResurrect ==
    /\ ResurrectInit
    /\ [][ResurrectNext]_vars
    /\ \A i \in {1, 2} : WF_vars(NetInput(i)) /\ WF_vars(MonitorTimer(i))

\* the monitor of the client's outgoing peering p, not a broadcast peering,
\* has just run
Monitored(p) ==
    /\ last'.op = "monitor"
    /\ last'.i = 1
    /\ last'.peering = p
    /\ p \notin vockets[1].free
    /\ vockets[1].heap[p].outgoing
    /\ ~vockets[1].heap[p].broadcast

\* an alive peering whose expiry has passed becomes dead: it leaves
\* live_peerings and stays in the peering table, monitored
ExpiryLowers ==
    \A p \in Cells :
       (Monitored(p) /\ vockets[1].heap[p].alive
                     /\ vockets[1].heap[p].expiry = "passed") =>
          /\ dstatus'[1] = "ok"
          /\ ~vockets'[1].heap[p].alive
          /\ p \notin ListSet(vockets'[1].live_peerings)
          /\ p \in Table(vockets'[1])
          /\ p \notin vockets'[1].free
          /\ <<"monitor", p>> \in vockets'[1].timers

\* while the peering is dead every run of its monitor sends one OHAI
DeadSendsOhai ==
    \A p \in Cells :
       (Monitored(p) /\ ~vockets[1].heap[p].alive) =>
          /\ Len(vockets'[1].tx) = 1
          /\ vockets'[1].tx[1].command = VTX_UDP_OHAI
          /\ vockets'[1].tx[1].to = vockets[1].heap[p].addr
          /\ <<"monitor", p>> \in vockets'[1].timers

\* an OHAI that reaches the server is answered with an OHAI-OK to its sender
OhaiAnswered ==
    (last'.op = "net" /\ last'.i = 2 /\ last'.d.command = VTX_UDP_OHAI) =>
       /\ dstatus'[2] = "ok"
       /\ Len(vockets'[2].tx) = 1
       /\ vockets'[2].tx[1].command = VTX_UDP_OHAI_OK
       /\ vockets'[2].tx[1].to = last'.d.from
       /\ vockets'[2].tx[1].body = last'.d.body

\* C12: an alive outgoing peering, not a broadcast peering, whose remote was
\* silent until the expiry passed becomes dead (out of live_peerings, still
\* in the peering table); OHAI is sent again each time its monitor runs; the
\* OHAI that reaches the remote is answered with OHAI-OK; and the peering is
\* alive again in the end
C12_Resurrection ==
    /\ [][ExpiryLowers /\ DeadSendsOhai /\ OhaiAnswered]_vars
    /\ (vockets[1].live_peerings = <<>>) ~> (Len(vockets[1].live_peerings) = 1
                                              /\ dstatus[1] = "ok")

\* the client's peering was dead and is alive again
C12_Witness ==
    /\ last.op = "net"
    /\ last.i = 1
    /\ last.d.command = VTX_UDP_OHAI_OK
    /\ used.time > 0
    /\ Len(vockets[1].live_peerings) = 1
    /\ dstatus[1] = "ok"

(***************************************************************************)
(* A bound vocket that sends round-robin (REQ, DEALER, PUSH), with peers   *)
(* whose OHAI it has answered; the application sends a run of messages.    *)
(***************************************************************************)
\* how many peers the vocket has at most, how many messages the application
\* sends and how many datagrams the peers send
MaxLive == 2
MaxRun == 4
MaxTraffic == 1

\* the address the n-th peer sends from
PeerAt(n) == <<<<"h2", "h3", "h4">>[n], 9>>

RECURSIVE Served(_, _)
\* The vocket, bound to *:5, once it has answered the OHAI of n peers
Served(socktype, n) ==
    IF n = 0 THEN Bound(socktype, 1, <<"*", 5>>)
    ELSE Enter(s_binding_input(
                  Served(socktype, n - 1),
                  EnvDatagram(PeerAt(n), <<"h1", 5>>, VTX_UDP_VERSION, 0,
                              VTX_UDP_OHAI, 0, TextBody(<<"h1", 5>>)),
                  n, "ok"))

\* what the peers send: keep-alives, and messages with and without RESEND
Traffic(n) ==
    UNION {{d \in EnvDatagrams(PeerAt(k)) :
               /\ d.command \in {VTX_UDP_HUGZ, VTX_UDP_NOM}
               /\ d.seq = 1} : k \in 1..n}

RoundRobinInit ==
    \E socktype \in {"REQ", "DEALER", "PUSH"}, n \in 1..MaxLive :
       VocketInit(<<Served(socktype, n)>>,
                  Budget(0, MaxRun, MaxTraffic, 0, MaxFail))

RoundRobinNext ==
    \/ AppSend(1)
    \/ VocketInput(1)
    \/ PeerInput(1, Traffic(vockets[1].peerings))
    \/ ResendTimer(1)

SpecRoundRobin == RoundRobinInit /\ [][RoundRobinNext]_vars

\* the number of the application's message that the handler took last
Taken == last.msg.frames[1].id

\* a DEALER or PUSH vocket sends the application's message to the peering
\* at the front of live_peerings and moves that peering to the back
RoundRobinTurn ==
    (/\ last'.op = "send"
     /\ vockets[1].routing = "DEALER"
     /\ NoneDestroyed(vockets[1])
     /\ NoneDestroyed(vockets'[1])) =>
        /\ vockets'[1].live_peerings
             = Tail(vockets[1].live_peerings) \o <<Head(vockets[1].live_peerings)>>
        /\ vockets'[1].rc = 0 =>
              /\ Len(vockets'[1].tx) = 1
              /\ vockets'[1].tx[1].to
                   = vockets[1].heap[Head(vockets[1].live_peerings)].addr
              /\ vockets'[1].tx[1].body = MsgBody(last'.msg)

\* once as many messages as there are peerings were sent, the last message
\* each peering got is one of the latest N; as this holds after every send,
\* each peering gets every N-th message.  The peerings are those the vocket
\* started with as long as no send has failed: nothing else destroys one here.
RoundRobinBalance ==
    (/\ Sent(1, "DEALER")
     /\ NoneDestroyed(vockets[1])
     /\ used.fail = 0
     /\ Taken >= Len(vockets[1].live_peerings)) =>
        \A p \in ListSet(vockets[1].live_peerings) :
           /\ ~vockets[1].heap[p].reply.null
           /\ Taken - vockets[1].heap[p].reply.frames[1].id
                < Len(vockets[1].live_peerings)

\* C13: on a DEALER or PUSH vocket whose alive peerings stay the same,
\* consecutive messages go to consecutive peerings of the rotating list
\* live_peerings (pop front, send, append at back), so that of M >= N
\* messages every one of the N peerings is sent floor (M/N) or ceil (M/N)
C13_RoundRobin == [][RoundRobinTurn]_vars /\ []RoundRobinBalance

\* the fourth message went out, to the second of two peerings
C13_Witness ==
    /\ Sent(1, "DEALER")
    /\ NoneDestroyed(vockets[1])
    /\ Taken = 4
    /\ vockets[1].live_peerings = <<1, 2>>
    /\ Len(vockets[1].tx) = 1
    /\ vockets[1].tx[1].to = PeerAt(2)

(***************************************************************************)
(* Two connected vockets whose applications send messages.  The datagrams  *)
(* in flight are a set: UDP delivers them in any order.                    *)
(***************************************************************************)
\* how many messages the two applications send
MaxInFlight == 2

LinkInit ==
    \E types \in {<<"SUB", "PUB">>, <<"PULL", "PUSH">>, <<"PAIR", "PAIR">>,
                  <<"DEALER", "ROUTER">>} :
       VocketInit(<<Connected(types[1], types[2], 1),
                    Connected(types[1], types[2], 2)>>,
                  Budget(0, MaxInFlight, 0, 0, 0))

LinkNext ==
    \/ AppSend(1)
    \/ AppSend(2)
    \/ VocketInput(1)
    \/ VocketInput(2)
    \/ NetInput(1)
    \/ NetInput(2)

SpecLink == LinkInit /\ [][LinkNext]_vars

\* the number of the payload of the k-th message the application of vocket i
\* got; the applications number their payloads as they send them
Payload(i, k) == inbox[i][k].msg.frames[Len(inbox[i][k].msg.frames)].id

\* C14: the payloads an application gets from one peering come in the order
\* in which the sending application sent them, with every pattern and
\* whatever order the datagrams arrive in
C14_SendOrder ==
    \A i \in DOMAIN inbox :
       \A j, k \in 1..Len(inbox[i]) :
          (j < k /\ inbox[i][j].peering = inbox[i][k].peering)
             => Payload(i, j) < Payload(i, k)

\* the peering that the first frame of the message addresses, 0 if the
\* peering table has none under that host:port
Addressed(v, msg) == zhash_lookup(v.peering_hash, Tail(Head(msg.frames).text))

\* the first frame has this driver's scheme and addresses an alive peering
Routable(v, msg) ==
    /\ Head(msg.frames).text[1] = "udp"
    /\ Addressed(v, msg) # 0
    /\ v.heap[Addressed(v, msg)].alive

\* a ROUTER vocket sends the message, without its first frame, to the
\* addressed peering and to no other, if that peering is alive; it sends
\* nothing otherwise
RouterSends ==
    (last'.op = "send" /\ vockets[1].routing = "ROUTER") =>
       IF Routable(vockets[1], last'.msg) /\ vockets'[1].rc = 0
       THEN /\ Len(vockets'[1].tx) = 1
            /\ vockets'[1].tx[1].command = VTX_UDP_NOM
            /\ vockets'[1].tx[1].to
                 = vockets[1].heap[Addressed(vockets[1], last'.msg)].addr
            /\ vockets'[1].tx[1].body = MsgBody(Msg(Tail(last'.msg.frames)))
       ELSE vockets'[1].tx = <<>>

\* the first frame of a request that a ROUTER vocket passes to its
\* application addresses the peering the request came from
RouterEnvelope ==
    (/\ last'.op = "input"
     /\ vockets[1].routing = "ROUTER"
     /\ Len(inbox'[1]) > Len(inbox[1])) =>
        \E e \in {inbox'[1][Len(inbox'[1])]} :
           /\ Head(e.msg.frames).kind = "text"
           /\ Head(e.msg.frames).text[1] = "udp"
           /\ Addressed(vockets'[1], e.msg) = e.peering
           /\ vockets'[1].heap[e.peering].addr = last'.d.from

\* C15: a ROUTER vocket transmits a message whose first frame is
\* scheme://host:port, without that frame, to the peering keyed host:port if
\* that peering exists and is alive, and to no other; it transmits nothing
\* if the peering is unknown or dead or the scheme is wrong.  The envelope of
\* an inbound request names the peering it came from.
C15_RouterAddressing == [][RouterSends /\ RouterEnvelope]_vars

\* a ROUTER vocket with two peerings answered a request by its envelope
C15_Witness ==
    /\ Sent(1, "ROUTER")
    /\ vockets[1].peerings = 2
    /\ Len(inbox[1]) = 1
    /\ Head(last.msg.frames) = Head(inbox[1][1].msg.frames)
    /\ Len(vockets[1].tx) = 1
    /\ vockets[1].tx[1].to = inbox[1][1].from

\* the vocket has sent a request that no reply has come for yet
InFlight(v) == \E p \in ListSet(v.peering_list) \ v.free : ~v.heap[p].request.null

\* C16: a REQ vocket, whatever the number of its alive peerings, drops a
\* message that the application sends while a request is waiting for its
\* reply: it transmits nothing to any peer
C16_LockStep ==
    [][(/\ last'.op = "send"
        /\ vockets[1].routing = "REQUEST"
        /\ InFlight(vockets[1])) => vockets'[1].tx = <<>>]_vars

\* the reactor polls the application mailbox of the vocket
Registered(v) == v.polling > 0

\* C17: after every handler the reactor polls the application mailbox of the
\* vocket exactly when live_peerings holds at least min_peerings peerings,
\* and no message is taken off the mailbox while it holds fewer
C17_MinLiveGating ==
    /\ dstatus[1] = "ok" =>
         (Registered(vockets[1])
            <=> Len(vockets[1].live_peerings) >= vockets[1].min_peerings)
    /\ (last.op = "send" /\ dstatus[1] = "ok" /\ vockets[1].tx # <<>>) =>
         Len(vockets[1].live_peerings) >= vockets[1].min_peerings

\* the vocket holds as many peerings as its pattern allows
Full(v) == Cardinality(DOMAIN v.peering_hash) >= v.max_peerings

OhaiBeyondMax ==
    /\ last'.op = "input"
    /\ InputAllocates(vockets[1], last'.d)
    /\ Full(vockets[1])

\* C19: an OHAI from an unknown address to a vocket that holds max_peerings
\* peerings is answered with ROTFL to that address; the peering made for it
\* is destroyed in the same handler and is never alive, and the vocket is
\* left with the peerings it had
C19_AcceptBeyondMax ==
    [][OhaiBeyondMax =>
         /\ dstatus'[1] = "ok"
         /\ used'.fail = used.fail =>
              /\ Len(vockets'[1].tx) = 1
              /\ vockets'[1].tx[1].command = VTX_UDP_ROTFL
              /\ vockets'[1].tx[1].to = last'.d.from
         /\ vockets'[1].out = <<>>
         /\ vockets'[1].peering_hash = vockets[1].peering_hash
         /\ vockets'[1].peering_list = vockets[1].peering_list
         /\ vockets'[1].live_peerings = vockets[1].live_peerings
         /\ vockets'[1].peerings = vockets[1].peerings
         /\ vockets'[1].free = vockets[1].free
         /\ vockets'[1].timers = vockets[1].timers
         /\ Cardinality(DOMAIN vockets'[1].peering_hash) <= vockets'[1].max_peerings]_vars

\* the handler that ran had a send fail and destroyed peering p for it
DestroyedForError(p) ==
    /\ used'.fail > used.fail
    /\ p \in vockets'[1].free \ vockets[1].free

\* C20: a peering destroyed because a send to it failed with a terminal
\* error is, when the handler returns, in none of the peering table,
\* peering_list and live_peerings, no timer is armed for it, and the vocket
\* keeps no other pointer to it that routing could select
C20_TerminalError ==
    [][\A p \in 1..MaxCells : DestroyedForError(p) =>
         /\ dstatus'[1] = "ok"
         /\ p \notin Table(vockets'[1])
         /\ p \notin ListSet(vockets'[1].peering_list)
         /\ p \notin ListSet(vockets'[1].live_peerings)
         /\ \A t \in vockets'[1].timers : t[2] # p
         /\ vockets'[1].reply_to # p]_vars

(***************************************************************************)
(*                     Claims on the codec's failures                      *)
(***************************************************************************)
\* C21: vtx_codec_msg_get on a codec that holds no frame (fresh, or with
\* every stored frame extracted, whatever puts failed before) returns -1 for
\* 'empty' and does not abort
C21_GetEmpty ==
    [][(/\ offered' = offered
        /\ cstatus = "ok"
        /\ fetched = stored) =>
          /\ cstatus' = "ok"
          /\ lastGet' = "empty"
          /\ fetched' = fetched]_vars

(***************************************************************************)
(* One codec and a caller that uses the whole interface on it, in any      *)
(* order: frames and serialized data go in, frames and serialized data     *)
(* come out.  last is the call made last, with what it returned.           *)
(***************************************************************************)
MaxCalls == 3

\* serialized data given to vtx_codec_bin_put: size bytes that are one frame
\* with its header when size >= 2 (a lone header octet when size = 1)
Serialized(size, fill) ==
    IF size = 1 THEN <<1>>
    ELSE s_put_zmq_header(size - 2, FALSE) \o [i \in 1..(size - 2) |-> fill]

\* serialized data that is not the encoding of frames: a header whose length
\* octet is 0, a long header with length 0
Malformed == {<<0, 0>>, <<255, 0, 0, 0, 0, 0, 0, 0, 0, 0>>}

\* the sizes the caller tries: small ones, and around what the codec says
\* it has room for
PutSizes(self) ==
    {n \in {1, 3, vtx_codec_bin_space(self).n - 1, vtx_codec_bin_space(self).n,
            vtx_codec_bin_space(self).n + 1} : n >= 1}

CallInit ==
    /\ \E start \in Codec1Starts : codec1 = vtx_codec_new(CodecLimit, start)
    /\ codec2 = vtx_codec_new(CodecLimit, 0)
    /\ stored = <<>>
    /\ fetched = <<>>
    /\ offered = 0
    /\ lastGet = "none"
    /\ cstatus = "ok"
    /\ UdpIdle
    /\ QueueIdle
    /\ VtxIdle

\* what a call leaves alone
CallFrame == UNCHANGED <<codec2, stored, fetched, lastGet, vockets, net, mailbox,
                         inbox, dstatus, used, budget, queueVars, vtx, clock>>

\* rc = vtx_codec_bin_put (codec1, data, size): the data is whole frames, or
\* the header of a 10 byte frame whose body has not arrived, or malformed
BinPut ==
    /\ cstatus = "ok"
    /\ offered < MaxCalls
    /\ \E data \in Malformed \cup {s_put_zmq_header(10, FALSE)}
                     \cup {Serialized(n, 7) : n \in PutSizes(codec1)} :
         \E r \in {vtx_codec_bin_put(codec1, data)} :
            /\ codec1' = r.c
            /\ last' = [op |-> "bin_put", rc |-> r.rc, n |-> Len(data),
                        data |-> data]
    /\ offered' = offered + 1
    /\ cstatus' = cstatus
    /\ CallFrame

\* rc = vtx_codec_msg_put (codec1, &msg, more)
FramePut ==
    /\ cstatus = "ok"
    /\ offered < MaxCalls
    /\ \E size \in FrameSizes, more \in {FALSE} :
         \E r \in {vtx_codec_msg_put(codec1, Frame(size, 7, more))} :
            /\ codec1' = r.c
            /\ last' = [op |-> "msg_put", rc |-> r.rc,
                        n |-> size + Len(s_put_zmq_header(size, more))]
    /\ offered' = offered + 1
    /\ cstatus' = cstatus
    /\ CallFrame

\* rc = vtx_codec_msg_get (codec1, &msg, &more)
FrameGet ==
    /\ cstatus = "ok"
    /\ \E r \in {vtx_codec_msg_get(codec1)} :
         /\ codec1' = r.c
         /\ cstatus' = r.st
         /\ last' = [op |-> "msg_get", rc |-> r.rc,
                     n |-> IF r.rc = 0
                           THEN Len(r.msg.body)
                                + Len(s_put_zmq_header(Len(r.msg.body), r.msg.more))
                           ELSE 0]
    /\ offered' = offered
    /\ CallFrame

\* size = vtx_codec_bin_get (codec1, &data), and when there is data,
\* vtx_codec_bin_tick (codec1, n) for a part of it or for all
BinTake ==
    /\ cstatus = "ok"
    /\ \E g \in {vtx_codec_bin_get(codec1)} :
         \E n \in (IF g.size <= 1 THEN {g.size} ELSE {g.size - 1, g.size}) :
            \E t \in {vtx_codec_bin_tick(g.c, n)} :
               /\ codec1' = IF g.st = "ok" THEN t.c ELSE g.c
               /\ cstatus' = IF g.st # "ok" THEN g.st ELSE t.st
               /\ last' = [op |-> "bin_get", rc |-> 0, n |-> n, size |-> g.size]
    /\ offered' = offered
    /\ CallFrame

\* n = vtx_codec_bin_space (codec1)
Space ==
    /\ cstatus = "ok"
    /\ \E r \in {vtx_codec_bin_space(codec1)} :
         /\ codec1' = r.c
         /\ last' = [op |-> "space", rc |-> 0, n |-> r.n]
    /\ offered' = offered
    /\ cstatus' = cstatus
    /\ CallFrame

CallNext == BinPut \/ FramePut \/ FrameGet \/ BinTake \/ Space

SpecCalls == CallInit /\ [][CallNext]_vars

\* C22: when the data stored with vtx_codec_bin_put is not well-formed
\* framing (a header with length octet 0), vtx_codec_msg_get returns a
\* failure and the program goes on
C22_Malformed ==
    [][(/\ last'.op = "msg_get"
        /\ last.op = "bin_put"
        /\ last.rc = 0
        /\ last.data \in Malformed
        /\ vtx_codec_active(codec1) = last.n) =>
          /\ last'.rc = -1
          /\ cstatus' = "ok"]_vars

\* C23: vtx_codec_bin_space returns the largest size the next
\* vtx_codec_bin_put accepts: after it returned n > 0 a put of at most n
\* bytes succeeds, and after it returned 0 every put fails
C23_Space ==
    [][(last.op = "space" /\ last'.op = "bin_put") =>
          /\ (last.n > 0 /\ last'.n <= last.n) => last'.rc = 0
          /\ last.n = 0 => last'.rc = -1]_vars

\* what the call made last has stored (+) or extracted (-), header included
Moved ==
    IF last'.op \in {"bin_put", "msg_put"}
    THEN IF last'.rc = 0 THEN last'.n ELSE 0
    ELSE IF last'.op \in {"msg_get", "bin_get"} THEN 0 - last'.n
    ELSE 0

\* C24: vtx_codec_active is the number of bytes, headers included, that the
\* puts have stored and the gets and ticks have not yet extracted: every
\* call changes it by what the call stored or extracted (a failed put by
\* nothing), and it is 0 when vtx_codec_bin_get returns 0 and when
\* vtx_codec_msg_get finds the codec empty
C24_Active ==
    [][cstatus' = "ok" =>
         /\ vtx_codec_active(codec1') = vtx_codec_active(codec1) + Moved
         /\ (last'.op = "bin_get" /\ last'.size = 0) => vtx_codec_active(codec1') = 0
         /\ (last'.op = "msg_get" /\ last'.rc = -1) => vtx_codec_active(codec1') = 0]_vars


(***************************************************************************)
(* The ring queue's caller: a queue of some limit, then stores of fresh    *)
(* frames (grabbed or copied) and drops from either end, in any order.     *)
(***************************************************************************)
QueueInit ==
    /\ \E limit \in 2 .. MaxLimit : queue = queue_new(limit)
    /\ frames = {}
    /\ CodecIdle
    /\ UdpIdle
    /\ VtxIdle

QueueFrame == UNCHANGED <<codec1, codec2, stored, fetched, lastGet, cstatus,
                          vockets, net, mailbox, inbox, dstatus, used, budget,
                          vtx, clock>>

\* queue_store (queue, frame, grab) with a frame made for this store
QueueStore ==
    /\ offered < MaxStores
    /\ \E grab \in BOOLEAN :
       \E r \in {queue_store(queue, frames, zframe_new(offered + 1), grab)} :
          /\ queue' = r.self
          /\ frames' = r.frames
          /\ last' = [op |-> "store", size |-> queue_size(queue),
                      frame |-> IF grab THEN zframe_new(offered + 1)
                                ELSE zframe_dup(zframe_new(offered + 1))]
    /\ offered' = offered + 1
    /\ QueueFrame

QueueDropOldest ==
    /\ \E r \in {queue_drop_oldest(queue, frames)} :
          /\ queue' = r.self
          /\ frames' = r.frames
    /\ last' = [op |-> "drop_oldest", size |-> queue_size(queue)]
    /\ UNCHANGED offered
    /\ QueueFrame

QueueDropNewest ==
    /\ \E r \in {queue_drop_newest(queue, frames)} :
          /\ queue' = r.self
          /\ frames' = r.frames
    /\ last' = [op |-> "drop_newest", size |-> queue_size(queue)]
    /\ UNCHANGED offered
    /\ QueueFrame

QueueNext == QueueStore \/ QueueDropOldest \/ QueueDropNewest

SpecQueue == QueueInit /\ [][QueueNext]_vars

\* The frame of a set that was stored first, and the one stored last
Earliest(held) == CHOOSE f \in held : \A g \in held : f.seq <= g.seq

Latest(held) == CHOOSE f \in held : \A g \in held : f.seq >= g.seq

\* The queue holds the frames it owns and no more than limit - 1 of them;
\* its ends are the earliest and the latest of them, NULL when there is none
RingBound ==
    /\ queue_size(queue) <= queue.limit - 1
    /\ queue_size(queue) = Cardinality(frames)
    /\ queue_oldest(queue) = IF frames = {} THEN NOFRAME ELSE Earliest(frames)
    /\ queue_newest(queue) = IF frames = {} THEN NOFRAME ELSE Latest(frames)

\* A store makes its frame the newest, and into a queue of limit - 1 frames
\* it destroys the oldest one; a drop on an empty queue changes nothing
RingStep ==
    /\ last'.op = "store" =>
          /\ queue_newest(queue') = last'.frame
          /\ queue_size(queue) = queue.limit - 1 =>
                /\ queue_size(queue') = queue.limit - 1
                /\ frames' = (frames \ {queue_oldest(queue)}) \cup {last'.frame}
          /\ queue_size(queue) < queue.limit - 1 =>
                /\ queue_size(queue') = queue_size(queue) + 1
                /\ frames' = frames \cup {last'.frame}
    /\ (last'.op \in {"drop_oldest", "drop_newest"} /\ queue_size(queue) = 0) =>
          /\ queue' = queue
          /\ frames' = frames

\* C25: a queue of limit N never holds more than N - 1 frames; a store into
\* a queue of N - 1 frames discards the oldest, leaves the size at N - 1 and
\* makes the stored frame the newest; queue_oldest and queue_newest return
\* the earliest and the latest stored frame still held, NULL when the queue
\* is empty; a drop on an empty queue changes nothing.
C25_Ring == []RingBound /\ [][RingStep]_vars

\* A store into a full queue of the largest limit whose ring has wrapped
C25_Witness ==
    /\ last.op = "store"
    /\ last.size = queue.limit - 1
    /\ queue.limit = MaxLimit
    /\ queue.tail < queue.head
    /\ queue_newest(queue) = last.frame


\* The bind of address cannot be carried out: the vocket has no binding under
\* it, and its host is neither * nor one inet_aton knows, or bind () finds
\* the address in use
BindFails(v, address) ==
    /\ address \notin DOMAIN v.binding_hash
    /\ \/ address[1] # "*" /\ ~KnownHost(address[1])
       \/ <<address[1], address[2]>> \in v.bound

\* C26: a BIND that cannot be carried out is answered with a nonzero status,
\* and no binding is recorded for the vocket.
C26_BindFailure ==
    [][(/\ last'.op = "control"
        /\ last'.command = "BIND"
        /\ BindFails(vockets[last'.i], last'.address))
       => /\ vockets'[last'.i].reply # "0"
          /\ vockets'[last'.i].binding_hash = vockets[last'.i].binding_hash]_vars


(***************************************************************************)
(* The application of vtx.c: it registers drivers, creates sockets, binds, *)
(* connects and closes them.  A driver answers a command with "0" or "1".  *)
(***************************************************************************)
Schemes == {<<"udp">>, <<"tcp">>}

\* endpoints of the registered and of unknown schemes, and one without "://"
Endpoints ==
    {<<"udp", "://", "*:5">>, <<"tcp", "://", "*:5">>,
     <<"unknown", "://", "127.0.0.1:5555">>, <<"udp:*:5">>}

VtxInit ==
    /\ vtx = vtx_new
    /\ CodecIdle
    /\ UdpIdle
    /\ QueueIdle

VtxFrame == UNCHANGED <<codec1, codec2, stored, fetched, lastGet, vockets, net,
                        mailbox, inbox, dstatus, used, budget, queueVars, clock>>

VtxRegister ==
    /\ cstatus = "ok"
    /\ \E scheme \in Schemes :
       \E r \in {vtx_register(vtx, scheme)} :
          /\ vtx' = r.self
          /\ last' = [op |-> "register", scheme |-> scheme, rc |-> r.rc]
    /\ UNCHANGED <<offered, cstatus>>
    /\ VtxFrame

VtxSocket ==
    /\ cstatus = "ok"
    /\ Cardinality(DOMAIN vtx.sockets) < MaxSockets
    /\ \E type \in {"REQ"} :
       \E r \in {vtx_socket(vtx, type)} :
          /\ vtx' = r.self
          /\ last' = [op |-> "socket", socket |-> r.socket]
    /\ UNCHANGED <<offered, cstatus>>
    /\ VtxFrame

\* vtx_bind or vtx_connect on a socket vtx_socket has returned; before is
\* the call that came just before this one, if any
VtxCall ==
    /\ cstatus = "ok"
    /\ offered < MaxDriverCalls
    /\ \E socket \in DOMAIN vtx.sockets, endpoint \in Endpoints,
          command \in {"BIND", "CONNECT"}, reply \in {"0", "1"} :
       \E r \in {IF command = "BIND" THEN vtx_bind(vtx, socket, endpoint, reply)
                 ELSE vtx_connect(vtx, socket, endpoint, reply)} :
          /\ vtx' = r.self
          /\ cstatus' = r.st
          /\ last' = [op |-> "call", command |-> command, socket |-> socket,
                      endpoint |-> endpoint, reply |-> reply, rc |-> r.rc,
                      before |-> IF last.op = "call"
                                 THEN [last EXCEPT !.before = <<>>]
                                 ELSE <<>>]
    /\ offered' = offered + 1
    /\ VtxFrame

VtxClose ==
    /\ cstatus = "ok"
    /\ offered < MaxDriverCalls
    /\ \E socket \in DOMAIN vtx.sockets, reply \in {"0"} :
       \E r \in {vtx_close(vtx, socket, reply)} :
          /\ vtx' = r.self
          /\ cstatus' = r.st
          /\ last' = [op |-> "close", socket |-> socket, rc |-> r.rc]
    /\ offered' = offered + 1
    /\ VtxFrame

VtxNext == VtxRegister \/ VtxSocket \/ VtxCall \/ VtxClose

SpecVtx == VtxInit /\ [][VtxNext]_vars

\* the scheme of a well-formed endpoint
SchemeOf(endpoint) == SubSeq(endpoint, 1, scheme_end(endpoint) - 1)

\* The call of this step names a scheme without a driver
UnknownScheme ==
    /\ last'.op = "call"
    /\ scheme_end(last'.endpoint) # 0
    /\ SchemeOf(last'.endpoint) \notin DOMAIN vtx.drivers

\* The call of this step names a registered scheme, on the socket whose call
\* before it failed for an unknown scheme, a socket of no other driver
CallAfterUnknown ==
    /\ last.op = "call"
    /\ last.rc = -1
    /\ scheme_end(last.endpoint) # 0
    /\ SchemeOf(last.endpoint) \notin DOMAIN vtx.drivers
    /\ last'.op = "call"
    /\ last'.socket = last.socket
    /\ scheme_end(last'.endpoint) # 0
    /\ SchemeOf(last'.endpoint) \in DOMAIN vtx.drivers
    /\ vtx.sockets[last.socket].driver \in {<<>>, SchemeOf(last'.endpoint)}
    /\ last'.before # <<>>

\* C27: bind or connect with a scheme that has no registered driver returns
\* -1, sends no command to any driver and gives the socket no driver; a
\* later bind or connect with a registered scheme on the same socket sends
\* its command to that driver and returns the driver's status.
C27_UnknownScheme ==
    [][/\ UnknownScheme =>
             /\ last'.rc = -1
             /\ cstatus' = "ok"
             /\ vtx' = vtx
       /\ CallAfterUnknown =>
             /\ last'.rc = atoi(last'.reply)
             /\ cstatus' = "ok"
             /\ vtx'.sockets[last'.socket].driver = SchemeOf(last'.endpoint)
             /\ vtx'.drivers[SchemeOf(last'.endpoint)].commands =
                   Append(vtx.drivers[SchemeOf(last'.endpoint)].commands,
                          <<last'.command, vtx.sockets[last'.socket].type,
                            last'.socket,
                            SubSeq(last'.endpoint, scheme_end(last'.endpoint) + 1,
                                   Len(last'.endpoint))>>)]_vars

\* A connect that the udp driver accepted on a socket without a driver, right
\* after the socket's connect with the unknown scheme had failed
C27_Witness ==
    /\ last.op = "call"
    /\ last.rc = 0
    /\ last.endpoint = <<"udp", "://", "*:5">>
    /\ vtx.sockets[last.socket].driver = <<"udp">>
    /\ Len(vtx.drivers[<<"udp">>].commands) = 1
    /\ last.before # <<>>
    /\ last.before.socket = last.socket
    /\ last.before.command = "CONNECT"
    /\ last.before.endpoint = <<"unknown", "://", "127.0.0.1:5555">>
    /\ last.before.rc = -1


(***************************************************************************)
(* A REQ vocket connected to a server: the application sends requests, the *)
(* server's replies arrive with any sequence number, the timers fire.      *)
(***************************************************************************)
\* how many requests the application sends, how many reply datagrams arrive
MaxAsk == 2
MaxAnswer == 2

\* the NOMs the server may send back, from the handle it answered the OHAI
\* with: any of three sequence numbers
Replies ==
    {EnvDatagram(Local(2), Local(1), VTX_UDP_VERSION, 0, VTX_UDP_NOM, q,
                 MsgBody(Msg(<<DataFrame(q + 1, 10, 0)>>))) : q \in 0 .. 2}

RequestInit ==
    VocketInit(<<Connected("REQ", "REP", 1)>>,
               Budget(0, MaxAsk, MaxAnswer, MaxTime, MaxFail))

RequestNext ==
    \/ AppSend(1)
    \/ VocketInput(1)
    \/ PeerInput(1, Replies)
    \/ ResendTimer(1)
    \/ MonitorTimer(1)
    \/ Elapse(1)

SpecRequest == RequestInit /\ [][RequestNext]_vars

\* the peering the datagram of this step came from, 0 if there is none
ReplyPeering ==
    zhash_lookup(vockets[1].peering_hash, s_sin_addr_to_str(last'.d.from))

\* a NOM has just arrived on the REQ vocket from a peering it knows
ReplyArrives ==
    /\ last'.op = "input"
    /\ last'.d.command = VTX_UDP_NOM
    /\ vockets[1].routing = "REQUEST"
    /\ ReplyPeering # 0

\* C28: on a REQ vocket a reply whose sequence is that of the last reply
\* accepted on the peering is not passed to the application and leaves the
\* request in flight; a reply with another sequence is passed on, its
\* sequence is recorded and the request in flight is cleared.
C28_DuplicateReply ==
    [][ReplyArrives =>
          IF last'.d.seq = vockets[1].heap[ReplyPeering].recvseq
          THEN /\ inbox'[1] = inbox[1]
               /\ vockets'[1].heap[ReplyPeering].request
                     = vockets[1].heap[ReplyPeering].request
               /\ vockets'[1].heap[ReplyPeering].recvseq
                     = vockets[1].heap[ReplyPeering].recvseq
          ELSE /\ Len(inbox'[1]) = Len(inbox[1]) + 1
               /\ SubSeq(inbox'[1], 1, Len(inbox[1])) = inbox[1]
               /\ inbox'[1][Len(inbox'[1])].msg = zmsg_decode(last'.d.body)
               /\ vockets'[1].heap[ReplyPeering].recvseq = last'.d.seq
               /\ vockets'[1].heap[ReplyPeering].request.null]_vars

\* The second request is in flight, the application has the first reply and
\* nothing else: the copy of the first reply that came after it was dropped
C28_Witness ==
    /\ last.op = "input"
    /\ last.d.command = VTX_UDP_NOM
    /\ last.d.seq = 1
    /\ used.input = 2
    /\ Len(inbox[1]) = 1
    /\ \E p \in DOMAIN vockets[1].heap :
          /\ p \notin vockets[1].free
          /\ vockets[1].heap[p].recvseq = 1
          /\ vockets[1].heap[p].sendseq = 2
          /\ ~vockets[1].heap[p].request.null


\* the peerings of the REQ vocket that are in its table before and after
\* this step
Kept == {vockets[1].peering_hash[key] : key \in DOMAIN vockets[1].peering_hash}
        \cap {vockets'[1].peering_hash[key] : key \in DOMAIN vockets'[1].peering_hash}

\* the NOM that carries msg to peering p of vocket v
RequestDatagram(v, p, msg, flags) ==
    [from |-> v.handle, to |-> v.heap[p].addr, version |-> VTX_UDP_VERSION,
     flags |-> flags, command |-> VTX_UDP_NOM, seq |-> v.heap[p].sendseq,
     body |-> MsgBody(msg)]

\* The application's message reaches the peering at the front of the list:
\* with no request in flight it becomes the request, under the next sequence
\* number, and is sent; otherwise it is dropped and nothing changes
NewRequest ==
    (/\ last'.op = "send"
     /\ used'.fail = used.fail
     /\ Head(vockets[1].live_peerings) \in Kept) =>
        \E p \in {Head(vockets[1].live_peerings)} :
           IF vockets[1].heap[p].request.null
           THEN /\ vockets'[1].heap[p].sendseq = vockets[1].heap[p].sendseq + 1
                /\ vockets'[1].heap[p].request = last'.msg
                /\ vockets'[1].tx = <<RequestDatagram(vockets'[1], p, last'.msg, 0)>>
           ELSE /\ vockets'[1].heap[p].sendseq = vockets[1].heap[p].sendseq
                /\ vockets'[1].heap[p].request = vockets[1].heap[p].request
                /\ vockets'[1].tx = <<>>

\* nothing but a send changes a send sequence
SequenceKept ==
    last'.op # "send" =>
       \A p \in Kept : vockets'[1].heap[p].sendseq = vockets[1].heap[p].sendseq

\* The resend timer that does something: the peering is alive with a request
\* in flight, and the request goes out again as it is, marked RESEND, under
\* the sequence number it has
Retransmit ==
    (/\ last'.op = "resend"
     /\ used'.fail = used.fail) =>
        \E p \in {last'.peering} :
           /\ ~vockets[1].heap[p].request.null
           /\ vockets[1].heap[p].alive
           /\ vockets'[1].heap[p].request = vockets[1].heap[p].request
           /\ vockets'[1].tx = <<RequestDatagram(vockets[1], p,
                                                 vockets[1].heap[p].request,
                                                 VTX_UDP_RESEND)>>

\* Every peering of the table has its resend timer, and the timer of a
\* peering that is dead or has no request in flight sends nothing
ResendQuiet ==
    /\ \A key \in DOMAIN vockets[1].peering_hash :
          <<"resend", vockets[1].peering_hash[key]>> \in vockets[1].timers
    /\ \A t \in vockets[1].timers :
          (/\ t[1] = "resend"
           /\ dstatus[1] = "ok"
           /\ vockets[1].heap[t[2]].request.null \/ ~vockets[1].heap[t[2]].alive)
          => \A io \in IO :
                s_resend_timer(Enter(vockets[1]), t[2], io).tx = <<>>

\* C29: a peering's send sequence goes up by one with each new request the
\* REQ vocket sends on it and changes at no other time; while the request is
\* in flight and the peering alive the resend timer sends the same request,
\* flagged RESEND, under the same sequence; it sends nothing when there is no
\* request in flight or the peering is dead.
C29_Resend ==
    [][NewRequest /\ SequenceKept /\ Retransmit]_vars /\ []ResendQuiet

\* The second request was sent again: sequence 2, flagged RESEND
C29_Witness ==
    /\ last.op = "resend"
    /\ Len(vockets[1].tx) = 1
    /\ vockets[1].tx[1].flags = VTX_UDP_RESEND
    /\ vockets[1].tx[1].seq = 2
    /\ vockets[1].tx[1].body = MsgBody(vockets[1].heap[last.peering].request)
    /\ Len(inbox[1]) = 1


\* the monitor of peering p of vocket i runs in this step and finds the
\* peering alive with its expiry time passed
MonitorExpires(i, p) ==
    /\ last'.op = "monitor"
    /\ last'.i = i
    /\ last'.peering = p
    /\ p \notin vockets[i].free
    /\ vockets[i].heap[p].alive
    /\ vockets[i].heap[p].expiry = "passed"

\* what the expiry leaves of an incoming peering: nothing, and of an outgoing
\* one: a dead peering in the table, with its monitor armed
ExpiryByDirection ==
    \A i \in DOMAIN vockets : \A p \in Cells :
       MonitorExpires(i, p) =>
          /\ dstatus'[i] = "ok"
          /\ p \notin ListSet(vockets'[i].live_peerings)
          /\ IF vockets[i].heap[p].outgoing
             THEN /\ p \in Table(vockets'[i])
                  /\ p \in ListSet(vockets'[i].peering_list)
                  /\ p \notin vockets'[i].free
                  /\ ~vockets'[i].heap[p].alive
                  /\ <<"monitor", p>> \in vockets'[i].timers
             ELSE /\ p \notin Table(vockets'[i])
                  /\ p \notin ListSet(vockets'[i].peering_list)
                  /\ p \in vockets'[i].free
                  /\ \A t \in vockets'[i].timers : t[2] # p
                  /\ vockets'[i].peerings = vockets[i].peerings - 1

\* a well-formed datagram from an address of the peering table: the peering
\* it came from, if it outlives the handler, expires in the future
ExpiryRefreshed ==
    \A i \in DOMAIN vockets :
       (/\ last'.op \in {"net", "input"}
        /\ last'.i = i
        /\ last'.d.version = VTX_UDP_VERSION
        /\ last'.d.command < VTX_UDP_CMDLIMIT
        /\ s_sin_addr_to_str(last'.d.from) \in DOMAIN vockets[i].peering_hash) =>
          \E p \in {vockets[i].peering_hash[s_sin_addr_to_str(last'.d.from)]} :
             p \in Table(vockets'[i]) => vockets'[i].heap[p].expiry = "future"

\* C30: the monitor lowers an alive peering whose expiry has passed; an
\* incoming peering is then destroyed (it leaves the table and the lists,
\* its timers end), an outgoing one stays in the table, dead and monitored.
\* A datagram from a known peering moves the peering's expiry into the
\* future.
C30_Expiry == [][ExpiryByDirection /\ ExpiryRefreshed]_vars

\* The server's incoming peering expired and is gone, the client's outgoing
\* peering expired and is in the table, dead
C30_Witness ==
    /\ last.op = "monitor"
    /\ vockets[2].peering_hash = <<>>
    /\ vockets[2].peerings = 0
    /\ vockets[2].timers = {}
    /\ Table(vockets[1]) # {}
    /\ vockets[1].live_peerings = <<>>
    /\ used.time = MaxOutages


\* C40: vtx_close on a socket that was never bound or connected (it has no
\* driver) returns without error, sends no command to any driver and does
\* not reach through the missing driver.
C40_ClosePlaceholder ==
    [][(/\ last'.op = "close"
        /\ vtx.sockets[last'.socket].driver = <<>>)
       => /\ cstatus' = "ok"
          /\ last'.rc = 0
          /\ vtx' = vtx]_vars


\* codec1 holds nothing: all that was stored has been extracted and ticked off
Drained == cstatus = "ok" /\ vtx_codec_active(codec1) = 0

\* C38: whenever the codec has been drained through vtx_codec_bin_get and
\* vtx_codec_bin_tick (active is 0 again), after any puts, wrap-arounds and
\* drains, a put of a small frame succeeds: no space of the data buffer is
\* still held for data that was extracted.
C38_DrainRestores ==
    Drained =>
       /\ codec1.buffer_head = codec1.buffer_tail
       /\ \A size \in {0, 1, ZMQ_MAX_VSM_SIZE - 1} :
             vtx_codec_msg_put(codec1, Frame(size, 7, FALSE)).rc = 0

(***************************************************************************)
(* Commands that should end or keep a peering: ROTFL and the keep-alive.    *)
(***************************************************************************)
\* The last datagram, a ROTFL, came from the address of the dead outgoing
\* peering p of vocket 1
RotflReceived(p) ==
    /\ last.op = "input"
    /\ last.i = 1
    /\ last.d.command = VTX_UDP_ROTFL
    /\ last.d.version = VTX_UDP_VERSION
    /\ dstatus[1] = "ok"
    /\ zhash_lookup(vockets[1].peering_hash, s_sin_addr_to_str(last.d.from)) = p
    /\ p \notin vockets[1].free
    /\ vockets[1].heap[p].outgoing
    /\ ~vockets[1].heap[p].alive

\* C32: once an outgoing peering has received ROTFL, the run of its monitor
\* that follows sends no OHAI and leaves the peering dead
C32_RotflNoRetry ==
    [][\A p \in Cells :
          (RotflReceived(p) /\ last'.op = "monitor" /\ last'.peering = p) =>
             /\ \A k \in 1..Len(vockets'[1].tx) :
                   vockets'[1].tx[k].command # VTX_UDP_OHAI
             /\ ~vockets'[1].heap[p].alive]_vars

\* C36: on a REP vocket reply_to is NULL or points to a peering of the
\* peering table, one that was not destroyed
C36_ReplyToValid ==
    \A i \in DOMAIN vockets :
       (vockets[i].routing = "REPLY" /\ dstatus[i] = "ok") =>
          \/ vockets[i].reply_to = 0
          \/ /\ vockets[i].reply_to \in Table(vockets[i])
             /\ vockets[i].reply_to \notin vockets[i].free

(***************************************************************************)
(* A REQ vocket connected to a server whose replies may be duplicated and  *)
(* delayed: any reply to a request that was sent may arrive at any moment, *)
(* and the resend timer fires.                                             *)
(***************************************************************************)
\* how many requests the application sends, how many reply datagrams arrive
MaxDelayedAsk == 3
MaxDelayedAnswer == 3

\* the replies of the server to the requests sent so far, and their copies
SentReplies ==
    {EnvDatagram(Local(2), Local(1), VTX_UDP_VERSION, 0, VTX_UDP_NOM, q,
                 MsgBody(Msg(<<DataFrame(q + 1, 10, 0)>>))) :
        q \in 1 .. vockets[1].heap[1].sendseq}

DelayedInit ==
    VocketInit(<<Connected("REQ", "REP", 1)>>,
               Budget(0, MaxDelayedAsk, MaxDelayedAnswer, 0, 0))

DelayedNext ==
    \/ AppSend(1)
    \/ VocketInput(1)
    \/ PeerInput(1, SentReplies)
    \/ ResendTimer(1)

SpecDelayed == DelayedInit /\ [][DelayedNext]_vars

\* C37: a reply that answers an earlier request than the last one sent (its
\* own reply, or a copy of it, was delivered before the later request could
\* be sent) is not delivered again and does not clear the request in flight
C37_OneReply ==
    [][(/\ ReplyArrives
        /\ last'.d.seq < vockets[1].heap[ReplyPeering].sendseq) =>
          /\ inbox'[1] = inbox[1]
          /\ vockets'[1].heap[ReplyPeering].request
                = vockets[1].heap[ReplyPeering].request]_vars

(***************************************************************************)
(* A connected vocket whose application sends messages of any length, some *)
(* of them too long for a datagram.                                        *)
(***************************************************************************)
\* how many messages the application sends
MaxLongSend == 2

\* the longest frame whose encoding, header included, fits a datagram
LegalSize == VTX_UDP_MSGMAX - VTX_UDP_HEADER - 3

\* whether the encoding of the message is too long for a datagram
OverLong(msg) == EncodedSize(msg.frames) + VTX_UDP_HEADER > VTX_UDP_MSGMAX

\* the messages the application may send next: short, as long as a datagram
\* takes, and one byte longer
SizedMessages ==
    {Msg(<<DataFrame(used.send + 1, size, 0)>>) :
        size \in {10, LegalSize, LegalSize + 1}}

\* The application sends a message of one of these lengths on its socket
AppSendSized(i) ==
    /\ used.send < budget.send
    /\ \E msg \in SizedMessages :
          mailbox' = [mailbox EXCEPT ![i] = Append(@, msg)]
    /\ used' = [used EXCEPT !.send = @ + 1]
    /\ last' = [op |-> "app", i |-> i]
    /\ UNCHANGED <<codecVars, queueVars, vtx, vockets, net, inbox, dstatus, budget,
                   clock>>

LongInit ==
    \E types \in {<<"REQ", "REP">>, <<"DEALER", "REP">>, <<"PAIR", "PAIR">>} :
       VocketInit(<<Connected(types[1], types[2], 1)>>,
                  Budget(0, MaxLongSend, 0, MaxTime, MaxFail))

LongNext ==
    \/ AppSendSized(1)
    \/ VocketInput(1)
    \/ ResendTimer(1)
    \/ MonitorTimer(1)
    \/ Elapse(1)

SpecLong == LongInit /\ [][LongNext]_vars

\* no datagram the handler transmitted is longer than VTX_UDP_MSGMAX
WithinLimit ==
    \A i \in DOMAIN vockets : \A k \in 1..Len(vockets[i].tx) :
       vockets[i].tx[k].body.size + VTX_UDP_HEADER <= VTX_UDP_MSGMAX

\* a message too long is not transmitted, and the peerings are as alive, as
\* silent and as near their expiry as before
LongDropped ==
    (last'.op = "send" /\ OverLong(last'.msg)) =>
       /\ vockets'[1].tx = <<>>
       /\ dstatus'[1] = "ok"
       /\ vockets'[1].free = vockets[1].free
       /\ vockets'[1].live_peerings = vockets[1].live_peerings
       /\ \A p \in Cells :
             /\ vockets'[1].heap[p].alive = vockets[1].heap[p].alive
             /\ vockets'[1].heap[p].silent = vockets[1].heap[p].silent
             /\ vockets'[1].heap[p].expiry = vockets[1].heap[p].expiry

\* C33: no datagram longer than VTX_UDP_MSGMAX, the two header bytes
\* included, is transmitted; a message that would be longer is dropped at the
\* sender, and the drop changes neither the liveness of a peering nor its
\* silent and expiry times
C33_DatagramLimit == []WithinLimit /\ [][LongDropped]_vars

\* the application's second message, one byte too long, has just been
\* dropped; its peering is alive, its silent time in the future
C33_Witness ==
    /\ last.op = "send"
    /\ OverLong(last.msg)
    /\ vockets[1].tx = <<>>
    /\ Len(vockets[1].live_peerings) = 1
    /\ used.send = 2
    /\ mailbox[1] = <<>>
    /\ vockets[1].heap[1].silent = "future"

\* C39: a request too long for a datagram, dropped at the sender, does not
\* stay on the peering as the request in flight
C39_LongRequest ==
    [][(/\ last'.op = "send"
        /\ vockets[1].routing = "REQUEST"
        /\ OverLong(last'.msg)
        /\ vockets[1].heap[Head(vockets[1].live_peerings)].request.null) =>
          vockets'[1].heap[Head(vockets[1].live_peerings)].request.null]_vars

\* the datagram has a version other than 1 or a command that is none of the
\* six
Garbage(d) == d.version # VTX_UDP_VERSION \/ d.command >= VTX_UDP_CMDLIMIT

\* The datagram comes from an address vocket v has no peering for and is
\* neither an OHAI nor an OHAI-OK whose body is the key of a peering
Stranger(v, d) ==
    /\ s_sin_addr_to_str(d.from) \notin DOMAIN v.peering_hash
    /\ d.command # VTX_UDP_OHAI
    /\ ~(d.command = VTX_UDP_OHAI_OK /\ BodyKey(d.body) \in DOMAIN v.peering_hash)

\* C34: a datagram with a bad version or command, and a datagram from an
\* address without peering that is not an OHAI (nor an OHAI-OK that names a
\* peering), leaves the vocket as it was: no peering is created, raised or
\* refreshed, nothing is sent and nothing is delivered
C34_GarbageDropped ==
    [][(/\ last'.op = "input"
        /\ Garbage(last'.d) \/ Stranger(vockets[1], last'.d)) =>
          /\ Enter(vockets'[1]) = Enter(vockets[1])
          /\ vockets'[1].tx = <<>>
          /\ vockets'[1].out = <<>>
          /\ inbox' = inbox
          /\ dstatus' = dstatus]_vars

\* A datagram with command 6 has come from the address of an alive peering
\* whose expiry time had passed, and has not refreshed it
C34_Witness ==
    /\ last.op = "input"
    /\ last.d.command = VTX_UDP_CMDLIMIT
    /\ \E p \in Table(vockets[1]) :
          /\ vockets[1].heap[p].address = s_sin_addr_to_str(last.d.from)
          /\ vockets[1].heap[p].alive
          /\ vockets[1].heap[p].expiry = "passed"

\* C35: every peering of the peering table is stored under the key that is
\* its address field, and every binding of the binding table under its full
\* host:port address
C35_TableKeys ==
    \A i \in DOMAIN vockets :
       dstatus[i] = "ok" =>
          /\ \A key \in DOMAIN vockets[i].peering_hash :
                /\ vockets[i].peering_hash[key] \notin vockets[i].free
                /\ vockets[i].heap[vockets[i].peering_hash[key]].address = key
          /\ \A key \in DOMAIN vockets[i].binding_hash :
                vockets[i].binding_hash[key] = key

(***************************************************************************)
(* Two connected vockets whose applications send nothing, with time.  The  *)
(* clock counts in steps of VTX_UDP_OHAI_IVL, the shortest interval of the *)
(* monitor timer.  For the one peering of each vocket it holds how many    *)
(* steps are left until zclock_time () reaches peering->expiry and         *)
(* peering->silent (-1 once the time is past them) and until the monitor   *)
(* timer fires.  A timer fires when it is due; a datagram is delivered     *)
(* before the second step after it was sent; sendto succeeds.              *)
(***************************************************************************)
VTX_UDP_TIMEOUT == 10000
VTX_UDP_OHAI_IVL == 1000

\* VTX_UDP_TIMEOUT, and VTX_UDP_TIMEOUT / 3 rounded up, in steps of the clock
TimeoutSteps == VTX_UDP_TIMEOUT \div VTX_UDP_OHAI_IVL
HugzSteps ==
    ((VTX_UDP_TIMEOUT \div 3) + VTX_UDP_OHAI_IVL - 1) \div VTX_UDP_OHAI_IVL

\* one step less, -1 when the time is past
Less(steps) == IF steps < 0 THEN -1 ELSE steps - 1

KeepAliveInit ==
    \E types \in {<<"REQ", "REP">>, <<"SUB", "PUB">>, <<"PAIR", "PAIR">>} :
       \E due \in (0 .. 1) \X (0 .. 1) :
          /\ vockets = <<Connected(types[1], types[2], 1),
                         Connected(types[1], types[2], 2)>>
          /\ net = {}
          /\ mailbox = <<<<>>, <<>>>>
          /\ inbox = <<<<>>, <<>>>>
          /\ dstatus = <<"ok", "ok">>
          /\ last = [op |-> "none"]
          /\ used = Budget(0, 0, 0, 0, 0)
          /\ budget = Budget(0, 0, 0, 0, 0)
          /\ clock = [left |-> [i \in 1 .. 2 |->
                                   [expiry |-> TimeoutSteps, silent |-> HugzSteps,
                                    monitor |-> due[i]]],
                      late |-> {}]
          /\ CodecIdle
          /\ QueueIdle
          /\ VtxIdle

\* One step of time passes: no monitor timer is due, and every datagram on
\* its way was sent during the last step
Tick ==
    /\ \A i \in DOMAIN vockets :
          /\ dstatus[i] = "ok"
          /\ <<"monitor", 1>> \in vockets[i].timers => clock.left[i].monitor > 0
    /\ net \cap clock.late = {}
    /\ clock' = [left |-> [i \in DOMAIN vockets |->
                             [expiry |-> Less(clock.left[i].expiry),
                              silent |-> Less(clock.left[i].silent),
                              monitor |-> Less(clock.left[i].monitor)]],
                 late |-> net]
    /\ vockets' = [i \in DOMAIN vockets |->
                     [vockets[i] EXCEPT
                        !.heap[1].expiry =
                            IF clock.left[i].expiry <= 0 THEN "passed" ELSE @,
                        !.heap[1].silent =
                            IF clock.left[i].silent <= 0 THEN "passed" ELSE @]]
    /\ last' = [op |-> "time", i |-> 0]
    /\ UNCHANGED <<codecVars, queueVars, vtx, net, mailbox, inbox, dstatus, used,
                   budget>>

\* The clock of a peering after its monitor ran and left the vocket as r: a
\* send sets silent to now + VTX_UDP_TIMEOUT / 3; the timer is set again,
\* to VTX_UDP_TIMEOUT / 3 after a HUGZ and to VTX_UDP_OHAI_IVL otherwise
AfterMonitor(left, r) ==
    [left EXCEPT
       !.silent = IF r.tx # <<>> THEN HugzSteps ELSE @,
       !.monitor = IF r.tx # <<>> /\ r.tx[1].command = VTX_UDP_HUGZ
                   THEN HugzSteps ELSE 1]

\* The monitor timer of vocket i's peering is due and fires
TimedMonitor(i) ==
    /\ dstatus[i] = "ok"
    /\ <<"monitor", 1>> \in vockets[i].timers
    /\ clock.left[i].monitor = 0
    /\ last' = [op |-> "monitor", i |-> i, peering |-> 1]
    /\ \E r \in {s_peering_monitor(
                    Enter([vockets[i] EXCEPT !.timers = @ \ {<<"monitor", 1>>}]),
                    1, "ok")} :
          /\ Return(i, r, "ok")
          /\ clock' = [clock EXCEPT !.left[i] = AfterMonitor(@, r)]
    /\ UNCHANGED mailbox

\* Whether s_binding_input, given the datagram d, sets the field (expiry or
\* silent) of the peering of v anew: it would be in the future afterwards
\* had it been passed before
Renewed(v, d, field) ==
    s_binding_input([v EXCEPT !.heap[1][field] = "passed"], d, 0, "ok")
       .heap[1][field] = "future"

\* The clock of a peering after the datagram d was handled
AfterInput(left, v, d) ==
    [left EXCEPT
       !.expiry = IF Renewed(v, d, "expiry") THEN TimeoutSteps ELSE @,
       !.silent = IF Renewed(v, d, "silent") THEN HugzSteps ELSE @]

\* A datagram of the other vocket arrives
TimedInput(i) ==
    /\ dstatus[i] = "ok"
    /\ \E d \in net :
          /\ Listens(vockets[i], d.to)
          /\ d.from # vockets[i].handle
          /\ ~InputAllocates(vockets[i], d)
          /\ last' = [op |-> "net", i |-> i, d |-> d]
          /\ Return(i, s_binding_input(vockets[i], d, 0, "ok"), "ok")
          /\ clock' = [clock EXCEPT !.left[i] = AfterInput(@, vockets[i], d),
                                    !.late = @ \ {d}]
    /\ UNCHANGED mailbox

KeepAliveNext ==
    \/ Tick
    \/ TimedMonitor(1)
    \/ TimedMonitor(2)
    \/ TimedInput(1)
    \/ TimedInput(2)

SpecKeepAlive == KeepAliveInit /\ [][KeepAliveNext]_vars

\* both peerings are alive and the time has not reached their expiry
NeverExpires ==
    \A i \in DOMAIN vockets :
       /\ dstatus[i] = "ok"
       /\ vockets[i].live_peerings = <<1>>
       /\ vockets[i].heap[1].alive
       /\ vockets[i].heap[1].expiry = "future"

\* the monitor sends one HUGZ to the peer when the peering has been silent
\* for VTX_UDP_TIMEOUT / 3, and nothing before
HugzWhenSilent ==
    last'.op = "monitor" =>
       \E i \in {last'.i} :
          IF vockets[i].heap[1].silent = "passed"
          THEN /\ Len(vockets'[i].tx) = 1
               /\ vockets'[i].tx[1].command = VTX_UDP_HUGZ
               /\ vockets'[i].tx[1].to = vockets[i].heap[1].addr
          ELSE vockets'[i].tx = <<>>

\* a HUGZ is answered with one HUGZ-OK to its sender
HugzAnswered ==
    (last'.op = "net" /\ last'.d.command = VTX_UDP_HUGZ) =>
       \E i \in {last'.i} :
          /\ Len(vockets'[i].tx) = 1
          /\ vockets'[i].tx[1].command = VTX_UDP_HUGZ_OK
          /\ vockets'[i].tx[1].to = last'.d.from

\* a HUGZ-OK changes nothing but the expiry time
HugzOkSilent ==
    (last'.op = "net" /\ last'.d.command = VTX_UDP_HUGZ_OK) =>
       \E i \in {last'.i} :
          /\ vockets'[i].tx = <<>>
          /\ inbox' = inbox
          /\ Enter(vockets'[i]) = [Enter(vockets[i]) EXCEPT !.heap[1].expiry = "future"]
          /\ clock'.left[i] = [clock.left[i] EXCEPT !.expiry = TimeoutSteps]

\* C31: two vockets with alive peerings to each other, whose applications
\* send nothing and whose datagrams arrive within a delay well below
\* VTX_UDP_TIMEOUT / 3, never see a peering expire: each sends HUGZ once it
\* has been silent for VTX_UDP_TIMEOUT / 3, every HUGZ is answered with
\* HUGZ-OK, and a HUGZ-OK changes nothing but the expiry time
C31_KeepAlive ==
    /\ []NeverExpires
    /\ [][HugzWhenSilent /\ HugzAnswered /\ HugzOkSilent]_vars

\* A HUGZ-OK has reached the server, whose expiry time had come nearer
\* meanwhile: the server has sent a HUGZ of its own
C31_Witness ==
    /\ last.op = "net"
    /\ last.i = 2
    /\ last.d.command = VTX_UDP_HUGZ_OK
    /\ clock.left[2].expiry = TimeoutSteps
    /\ clock.left[1].expiry < TimeoutSteps

====
